---- MODULE Spec2Model ----
(***************************************************************************)
(* A model of the scam-honeypot engagement pipeline: the intelligence      *)
(* extractor (services/intelligenceExtractor.js), the two-stage detector   *)
(* (services/scamDetector.js), the session manager                         *)
(* (services/sessionManager.js), the response orchestrator                 *)
(* (services/aiAgent.js), the report callback (services/guviCallback.js)   *)
(* and the POST / route that drives them (routes/honeypot.js).             *)
(*                                                                         *)
(* Texts are TLA+ strings, read one character at a time with SubSeq, so    *)
(* the regular expressions of the source are modelled as matchers over     *)
(* the characters of the text.                                             *)
(***************************************************************************)
EXTENDS Integers, Sequences, FiniteSets, TLC

(***************************************************************************)
(* Characters and strings                                                  *)
(***************************************************************************)
Ch(s, i) == SubSeq(s, i, i)

DigitChars == {"0", "1", "2", "3", "4", "5", "6", "7", "8", "9"}

UpperStr == "ABCDEFGHIJKLMNOPQRSTUVWXYZ"

LowerStr == "abcdefghijklmnopqrstuvwxyz"

UpperChars == {Ch(UpperStr, i) : i \in 1..Len(UpperStr)}

LowerChars == {Ch(LowerStr, i) : i \in 1..Len(LowerStr)}

LetterChars == UpperChars \cup LowerChars

\* \w of a JavaScript regular expression
WordChars == LetterChars \cup DigitChars \cup {"_"}

\* \s of a JavaScript regular expression, as far as the texts use it
SpaceChars == {" ", "\t", "\n", "\r"}

\* String.prototype.toLowerCase, one character
LowerCh(c) ==
    IF c \in UpperChars
    THEN Ch(LowerStr, CHOOSE i \in 1..Len(UpperStr) : Ch(UpperStr, i) = c)
    ELSE c

RECURSIVE toLowerCase(_)
toLowerCase(s) ==
    IF Len(s) = 0 THEN ""
    ELSE IF Len(s) = 1 THEN LowerCh(s)
    ELSE toLowerCase(SubSeq(s, 1, Len(s) \div 2))
            \o toLowerCase(SubSeq(s, Len(s) \div 2 + 1, Len(s)))

\* s.substring(i - 1) of JavaScript (i is 1-based here)
From(s, i) == SubSeq(s, i, Len(s))

\* String.prototype.startsWith at position i (1-based)
StartsWithAt(s, i, p) ==
    /\ i + Len(p) - 1 <= Len(s)
    /\ SubSeq(s, i, i + Len(p) - 1) = p

startsWith(s, p) == StartsWithAt(s, 1, p)

endsWith(s, p) ==
    /\ Len(p) <= Len(s)
    /\ SubSeq(s, Len(s) - Len(p) + 1, Len(s)) = p

\* String.prototype.includes
includes(s, p) == \E i \in 1..(Len(s) + 1) : StartsWithAt(s, i, p)

\* the number of consecutive characters of class cls starting at position i
RECURSIVE RunLen(_, _, _)
RunLen(s, i, cls) ==
    IF i <= Len(s) /\ Ch(s, i) \in cls THEN 1 + RunLen(s, i + 1, cls) ELSE 0

Min(a, b) == IF a <= b THEN a ELSE b

Max(a, b) == IF a >= b THEN a ELSE b

(***************************************************************************)
(* services/intelligenceExtractor.js                                       *)
(***************************************************************************)
\* [a-zA-Z0-9._-] of PATTERNS.UPI
UpiLocalChars == LetterChars \cup DigitChars \cup {".", "_", "-"}

\* the characters the class of PATTERNS.URL excludes: white space and
\* < > " { } | \ ^ [ ] (and the backquote, which no text of the model holds:
\* a TLA+ string cannot)
UrlStopChars == SpaceChars \cup {"<", ">", "\"", "{", "}", "|", "\\", "^", "[", "]"}

RECURSIVE RunLenNot(_, _, _)
RunLenNot(s, i, cls) ==
    IF i <= Len(s) /\ Ch(s, i) \notin cls THEN 1 + RunLenNot(s, i + 1, cls) ELSE 0

\* the alternatives of PATTERNS.SUSPICIOUS_URL, in the order the regex tries them
ShortenerHosts ==
    <<"bit.ly", "tinyurl", "goo.gl", "t.co", "is.gd", "v.gd", "short.link", "rebrand.ly">>

\* case-insensitive literal at position i (the i flag)
StartsWithAtCI(s, i, p) ==
    /\ i + Len(p) - 1 <= Len(s)
    /\ toLowerCase(SubSeq(s, i, i + Len(p) - 1)) = p

\* [6-9]\d{9} at position j
PhoneCoreAt(s, j) ==
    /\ j >= 1
    /\ j + 9 <= Len(s)
    /\ Ch(s, j) \in {"6", "7", "8", "9"}
    /\ \A k \in 1..9 : Ch(s, j + k) \in DigitChars

\* \b at position i: between the characters i-1 and i
WordBoundaryAt(s, i) ==
    LET before == i > 1 /\ i - 1 <= Len(s) /\ Ch(s, i - 1) \in WordChars
        after == i >= 1 /\ i <= Len(s) /\ Ch(s, i) \in WordChars
    IN  before # after

\* The length of the match of a pattern of PATTERNS that starts at position i
\* (0: no match there), with the regex engine's greedy, leftmost-alternative
\* choices.
PATTERNS(pat, s, i) ==
    CASE pat = "UPI" ->
            \* /[a-zA-Z0-9._-]+@[a-zA-Z]{2,}/g
            LET a == RunLen(s, i, UpiLocalChars)
                l == RunLen(s, i + a + 1, LetterChars)
            IN  IF a >= 1 /\ i + a <= Len(s) /\ Ch(s, i + a) = "@" /\ l >= 2
                THEN a + 1 + l
                ELSE 0
      [] pat = "PHONE" ->
            \* /(?:\+91|91|0)?[6-9]\d{9}/g
            IF StartsWithAt(s, i, "+91") /\ PhoneCoreAt(s, i + 3) THEN 13
            ELSE IF StartsWithAt(s, i, "91") /\ PhoneCoreAt(s, i + 2) THEN 12
            ELSE IF StartsWithAt(s, i, "0") /\ PhoneCoreAt(s, i + 1) THEN 11
            ELSE IF PhoneCoreAt(s, i) THEN 10
            ELSE 0
      [] pat = "BANK_ACCOUNT" ->
            \* /\b\d{9,18}\b/g
            LET n == RunLen(s, i, DigitChars)
                ks == {k \in 9..Min(n, 18) : WordBoundaryAt(s, i + k)}
            IN  IF WordBoundaryAt(s, i) /\ ks # {}
                THEN CHOOSE k \in ks : \A k2 \in ks : k2 <= k
                ELSE 0
      [] pat = "URL" ->
            \* /https?:\/\/[^...]+/gi, the class being all but UrlStopChars
            LET withS == StartsWithAtCI(s, i, "https://")
                noS == StartsWithAtCI(s, i, "http://")
                h == IF withS THEN 8 ELSE 7
                n == RunLenNot(s, i + h, UrlStopChars)
            IN  IF (withS \/ noS) /\ n >= 1 THEN h + n ELSE 0
      [] pat = "SUSPICIOUS_URL" ->
            \* /(?:bit\.ly|tinyurl|...)\/[a-zA-Z0-9]+/gi
            LET ok(k) ==
                    /\ StartsWithAtCI(s, i, ShortenerHosts[k] \o "/")
                    /\ RunLen(s, i + Len(ShortenerHosts[k]) + 1,
                              LetterChars \cup DigitChars) >= 1
                hits == {k \in 1..Len(ShortenerHosts) : ok(k)}
            IN  IF hits = {} THEN 0
                ELSE LET k == CHOOSE k1 \in hits : \A k2 \in hits : k1 <= k2
                     IN  Len(ShortenerHosts[k]) + 1
                         + RunLen(s, i + Len(ShortenerHosts[k]) + 1,
                                  LetterChars \cup DigitChars)

\* text.match(PATTERNS.X) || [] for a global regex: every match, left to right,
\* the search resuming after each match
RECURSIVE MatchFrom(_, _, _)
MatchFrom(pat, s, i) ==
    IF i > Len(s) THEN <<>>
    ELSE LET n == PATTERNS(pat, s, i)
         IN  IF n > 0
             THEN <<SubSeq(s, i, i + n - 1)>> \o MatchFrom(pat, s, i + n)
             ELSE MatchFrom(pat, s, i + 1)

match(s, pat) == MatchFrom(pat, s, 1)

Range(f) == {f[i] : i \in DOMAIN f}

\* Array.from(new Set(seq)): the first occurrence of each value, in order
RECURSIVE Dedup(_)
Dedup(seq) ==
    IF seq = <<>> THEN <<>>
    ELSE LET rest == Dedup(SubSeq(seq, 1, Len(seq) - 1))
             last == seq[Len(seq)]
         IN  IF last \in Range(rest) THEN rest ELSE Append(rest, last)

\* Array.prototype.filter
RECURSIVE Filter(_, _)
Filter(seq, keep) ==
    IF seq = <<>> THEN <<>>
    ELSE (IF Head(seq) \in keep THEN <<Head(seq)>> ELSE <<>>) \o Filter(Tail(seq), keep)

emailDomains == <<"gmail", "yahoo", "hotmail", "outlook", "email", "mail">>

\* match.split('@')[1]?.toLowerCase() of a UPI match (it holds exactly one @)
UpiDomain(m) ==
    LET at == CHOOSE i \in 1..Len(m) : Ch(m, i) = "@"
    IN  toLowerCase(From(m, at + 1))

extractUpiIds(text) ==
    LET matches == match(text, "UPI")
        keep == {m \in Range(matches) :
                    ~ \E k \in 1..Len(emailDomains) : includes(UpiDomain(m), emailDomains[k])}
    IN  Filter(matches, keep)

\* phone.replace(/^\+91|^91|^0/, '')
StripPhonePrefix(phone) ==
    IF startsWith(phone, "+91") THEN From(phone, 4)
    ELSE IF startsWith(phone, "91") THEN From(phone, 3)
    ELSE IF startsWith(phone, "0") THEN From(phone, 2)
    ELSE phone

extractPhoneNumbers(text) ==
    LET matches == match(text, "PHONE")
        stripped == [i \in 1..Len(matches) |-> StripPhonePrefix(matches[i])]
    IN  Filter(stripped, {p \in Range(stripped) : Len(p) = 10})

\* /^[0-3]\d[0-1]\d\d{4}$/ on an 8-character digit string
LooksLikeDate(acc) ==
    /\ Len(acc) = 8
    /\ Ch(acc, 1) \in {"0", "1", "2", "3"}
    /\ Ch(acc, 3) \in {"0", "1"}
    /\ \A i \in 1..8 : Ch(acc, i) \in DigitChars

extractBankAccounts(text) ==
    LET matches == match(text, "BANK_ACCOUNT")
        drop(acc) ==
            \/ Len(acc) = 10 /\ Ch(acc, 1) \in {"6", "7", "8", "9"}
            \/ Len(acc) = 8 /\ LooksLikeDate(acc)
    IN  Filter(matches, {acc \in Range(matches) : ~ drop(acc)})

\* /https?:\/\/\d+\.\d+\.\d+\.\d+/.test(url): somewhere in the url
HasIpHost(url) ==
    \E i \in 1..Len(url) :
        \E h \in {7, 8} :
            /\ StartsWithAt(url, i, IF h = 8 THEN "https://" ELSE "http://")
            /\ LET d1 == RunLen(url, i + h, DigitChars)
                   p2 == i + h + d1 + 1
                   d2 == RunLen(url, p2, DigitChars)
                   p3 == p2 + d2 + 1
                   d3 == RunLen(url, p3, DigitChars)
                   p4 == p3 + d3 + 1
                   d4 == RunLen(url, p4, DigitChars)
               IN  /\ d1 >= 1 /\ d2 >= 1 /\ d3 >= 1 /\ d4 >= 1
                   /\ StartsWithAt(url, p2 - 1, ".")
                   /\ StartsWithAt(url, p3 - 1, ".")
                   /\ StartsWithAt(url, p4 - 1, ".")

SketchyUrlWords == {"bank", "verify", "update", "secure", "login", "account", "confirm"}

SketchyTlds == {"xyz", "tk", "ml", "ga", "cf", "gq", "top", "buzz"}

isSuspicious(url) ==
    \/ HasIpHost(url)
    \/ \E w \in SketchyUrlWords : includes(toLowerCase(url), w)
    \/ \E t \in SketchyTlds : endsWith(toLowerCase(url), "." \o t)
    \/ includes(url, "@")

extractPhishingLinks(text) ==
    LET allUrls == match(text, "URL")
        suspiciousShortUrls == match(text, "SUSPICIOUS_URL")
    IN  Dedup(suspiciousShortUrls
              \o Filter(allUrls, {u \in Range(allUrls) : isSuspicious(u)}))

\* SUSPICIOUS_KEYWORDS, the six categories in the order Object.entries visits
\* them (the rupee sign of the money list is left out: the texts are ASCII)
SUSPICIOUS_KEYWORDS ==
    <<  <<"urgent", "immediately", "now", "hurry", "limited time", "expires", "act now", "quick">>,
        <<"pay", "payment", "transfer", "send money", "rupees", "rs", "cash", "amount">>,
        <<"won", "winner", "lottery", "prize", "reward", "cashback", "bonus", "lucky", "jackpot">>,
        <<"otp", "pin", "password", "verify", "blocked", "suspended", "kyc", "update", "security">>,
        <<"free", "discount", "offer", "deal", "scheme", "investment", "returns", "profit", "guaranteed">>,
        <<"account", "bank", "credit", "debit", "card", "upi", "paytm", "phonepe", "gpay">>  >>

RECURSIVE Flatten(_)
Flatten(seqs) == IF seqs = <<>> THEN <<>> ELSE Head(seqs) \o Flatten(Tail(seqs))

extractSuspiciousKeywords(text) ==
    LET lowerText == toLowerCase(text)
        all == Flatten(SUSPICIOUS_KEYWORDS)
    IN  Dedup(Filter(all, {k \in Range(all) : includes(lowerText, k)}))

EmptyIntelligence ==
    [bankAccounts |-> <<>>, upiIds |-> <<>>, phishingLinks |-> <<>>,
     phoneNumbers |-> <<>>, suspiciousKeywords |-> <<>>]

extract(text) ==
    IF Len(text) = 0 THEN EmptyIntelligence
    ELSE [bankAccounts |-> extractBankAccounts(text),
          upiIds |-> extractUpiIds(text),
          phishingLinks |-> extractPhishingLinks(text),
          phoneNumbers |-> extractPhoneNumbers(text),
          suspiciousKeywords |-> extractSuspiciousKeywords(text)]

\* F of the value of v, v being evaluated once (const x = v; F(x))
Bind(F(_), v) == CHOOSE result \in {F(x) : x \in {v}} : TRUE

\* a variant that leaves the keyword points uncapped
getScamScoreEveryKeyword(text) ==
    Bind(LAMBDA intel :
            LET score == (IF Len(intel.upiIds) > 0 THEN 30 ELSE 0)
                       + (IF Len(intel.phoneNumbers) > 0 THEN 15 ELSE 0)
                       + (IF Len(intel.phishingLinks) > 0 THEN 40 ELSE 0)
                       + Len(intel.suspiciousKeywords) * 5
            IN  [score |-> Min(score, 100), intelligence |-> intel],
         extract(text))

\* a variant that returns the sum as it is
getScamScoreUnclamped(text) ==
    Bind(LAMBDA intel :
            LET score == (IF Len(intel.upiIds) > 0 THEN 30 ELSE 0)
                       + (IF Len(intel.phoneNumbers) > 0 THEN 15 ELSE 0)
                       + (IF Len(intel.phishingLinks) > 0 THEN 40 ELSE 0)
                       + (IF Len(intel.suspiciousKeywords) > 0
                          THEN Min(Len(intel.suspiciousKeywords) * 5, 30) ELSE 0)
            IN  [score |-> score, intelligence |-> intel],
         extract(text))

getScamScore(text) ==
    Bind(LAMBDA intel :
            LET score == (IF Len(intel.upiIds) > 0 THEN 30 ELSE 0)
                       + (IF Len(intel.phoneNumbers) > 0 THEN 15 ELSE 0)
                       + (IF Len(intel.phishingLinks) > 0 THEN 40 ELSE 0)
                       + (IF Len(intel.suspiciousKeywords) > 0
                          THEN Min(Len(intel.suspiciousKeywords) * 5, 30) ELSE 0)
            IN  [score |-> Min(score, 100), intelligence |-> intel],
         extract(text))

(***************************************************************************)
(* services/scamDetector.js.  A confidence is kept in thousandths          *)
(* (0.7 is 700), so that the blend 0.3 * pattern + 0.7 * semantic is an    *)
(* integer.                                                                *)
(***************************************************************************)
NULL == "<null>"

LotteryWords == {"lottery", "won", "winner", "prize", "jackpot"}

BankFraudWords == {"kyc", "blocked", "suspended", "verify", "account"}

\* a variant that looks at the UPI ids before the links
patternBasedDetectionUpiFirst(text) ==
    Bind(LAMBDA s :
            LET intelligence == s.intelligence
                kws == Range(intelligence.suspiciousKeywords)
                scamType ==
                    IF Len(intelligence.upiIds) > 0 THEN "upi_fraud"
                    ELSE IF Len(intelligence.phishingLinks) > 0 THEN "phishing"
                    ELSE IF kws \cap LotteryWords # {} THEN "lottery"
                    ELSE IF kws \cap BankFraudWords # {} THEN "bank_fraud"
                    ELSE IF s.score > 30 THEN "other"
                    ELSE "none"
                confidence == Min(s.score * 10, 1000)
            IN  [isScam |-> confidence > 100 \/ Len(intelligence.suspiciousKeywords) >= 2,
                 confidence |-> confidence,
                 scamType |-> scamType,
                 method |-> "pattern"],
         getScamScore(text))

patternBasedDetection(text) ==
    Bind(LAMBDA s :
            LET intelligence == s.intelligence
                kws == Range(intelligence.suspiciousKeywords)
                scamType ==
                    IF Len(intelligence.phishingLinks) > 0 THEN "phishing"
                    ELSE IF Len(intelligence.upiIds) > 0 THEN "upi_fraud"
                    ELSE IF kws \cap LotteryWords # {} THEN "lottery"
                    ELSE IF kws \cap BankFraudWords # {} THEN "bank_fraud"
                    ELSE IF s.score > 30 THEN "other"
                    ELSE "none"
                \* Math.min(score / 100, 1), in thousandths
                confidence == Min(s.score * 10, 1000)
            IN  [isScam |-> confidence > 100 \/ Len(intelligence.suspiciousKeywords) >= 2,
                 confidence |-> confidence,
                 scamType |-> scamType,
                 method |-> "pattern"],
         getScamScore(text))

\* What aiBasedDetection makes of the classifier's parsed answer: a missing or
\* zero confidence becomes 0.5, a missing scam type becomes 'other'
aiBasedDetection(parsed) ==
    [isScam |-> parsed.isScam,
     confidence |-> IF parsed.confidence = 0 THEN 500 ELSE parsed.confidence,
     scamType |-> IF parsed.scamType = NULL THEN "other" ELSE parsed.scamType,
     method |-> "ai"]

\* aiBasedDetection returning null
NullResult == [isNull |-> TRUE]

\* analyze once stage 2 has answered: aiResult is NullResult (classifier not
\* configured, threw, or its answer did not parse) or aiBasedDetection's record
analyzeCombine(patternResult, aiResult) ==
    IF aiResult = NullResult THEN patternResult
    ELSE LET \* pattern * 0.3 + ai * 0.7, in ten-thousandths
             combined == patternResult.confidence * 3 + aiResult.confidence * 7
         IN  [isScam |-> combined > 1000 \/ aiResult.isScam \/ patternResult.isScam,
              confidence |-> combined \div 10,
              scamType |-> IF aiResult.isScam THEN aiResult.scamType
                           ELSE patternResult.scamType,
              method |-> "combined"]

\* What aiBasedDetection returns for an outcome of the classifier: null when
\* no model is configured, when the call throws and when the answer is no JSON
\* (JSON.parse throws); otherwise the record built from whatever was parsed
aiResultOf(answer) ==
    IF answer.kind \in {"unconfigured", "throws", "unparsable"}
    THEN NullResult
    ELSE aiBasedDetection(answer.parsed)

\* analyze, given the outcome of the classifier should it be asked
analyze(text, answer) ==
    Bind(LAMBDA patternResult :
            IF patternResult.confidence >= 700
            THEN patternResult
            ELSE analyzeCombine(patternResult, aiResultOf(answer)),
         patternBasedDetection(text))

\* a variant whose threshold is 0.5
PatternIsSureAtHalf(patternResult) == patternResult.confidence >= 500

\* analyze returns the pattern result at once when its confidence is >= 0.7
PatternIsSure(patternResult) == patternResult.confidence >= 700

(***************************************************************************)
(* services/sessionManager.js.  The operators take and return one session  *)
(* record; the Map of sessions is the variable sessions.                   *)
(***************************************************************************)
createSession(sessionId) ==
    [sessionId |-> sessionId,
     scamDetected |-> FALSE,
     scamType |-> NULL,
     persona |-> NULL,
     conversationHistory |-> <<>>,
     extractedIntelligence |-> EmptyIntelligence,
     messageCount |-> 0,
     isComplete |-> FALSE,
     callbackSent |-> FALSE]

\* addMessage: the inbound message, then the agent's reply if it is truthy
\* (null and the empty string are not)
\* a variant that counts an exchange of two whether or not a reply was stored
addMessageCountingReply(session, message, agentResponse) ==
    LET inbound == [sender |-> message.sender, text |-> message.text]
        withReply == agentResponse # NULL /\ agentResponse # ""
    IN  [session EXCEPT
            !.conversationHistory =
                IF withReply
                THEN @ \o <<inbound, [sender |-> "agent", text |-> agentResponse]>>
                ELSE Append(@, inbound),
            !.messageCount = @ + 2]

addMessage(session, message, agentResponse) ==
    LET inbound == [sender |-> message.sender, text |-> message.text]
        withReply == agentResponse # NULL /\ agentResponse # ""
    IN  [session EXCEPT
            !.conversationHistory =
                IF withReply
                THEN @ \o <<inbound, [sender |-> "agent", text |-> agentResponse]>>
                ELSE Append(@, inbound),
            !.messageCount = IF withReply THEN @ + 2 ELSE @ + 1]

\* a variant whose persona-binding write retypes the session
setScamDetectedRetyping(session, isScam, scamType, persona) ==
    [session EXCEPT !.scamDetected = isScam,
                    !.scamType = IF persona = NULL THEN scamType ELSE "other",
                    !.persona = persona]

setScamDetected(session, isScam, scamType, persona) ==
    [session EXCEPT !.scamDetected = isScam, !.scamType = scamType, !.persona = persona]

IntelKeys == {"bankAccounts", "upiIds", "phishingLinks", "phoneNumbers", "suspiciousKeywords"}

\* a variant that fills a field once and leaves a filled field alone
addIntelligenceKeepingFirst(session, newIntelligence) ==
    [session EXCEPT !.extractedIntelligence =
        [key \in IntelKeys |-> IF @[key] = <<>> THEN Dedup(newIntelligence[key]) ELSE @[key]]]

\* a variant that keeps the latest message's intelligence only
addIntelligenceReplacing(session, newIntelligence) ==
    [session EXCEPT !.extractedIntelligence =
        [key \in IntelKeys |-> Dedup(newIntelligence[key])]]

addIntelligence(session, newIntelligence) ==
    [session EXCEPT !.extractedIntelligence =
        [key \in IntelKeys |-> Dedup(@[key] \o newIntelligence[key])]]

markComplete(session) == [session EXCEPT !.isComplete = TRUE]

\* a variant that reopens the session it marks as reported
markCallbackSentReopening(session) ==
    [session EXCEPT !.callbackSent = TRUE, !.isComplete = FALSE]

markCallbackSent(session) == [session EXCEPT !.callbackSent = TRUE]

hasAnyIntel(intel) ==
    \/ Len(intel.bankAccounts) > 0
    \/ Len(intel.upiIds) > 0
    \/ Len(intel.phishingLinks) > 0
    \/ Len(intel.phoneNumbers) > 0

\* a variant that overlooks UPI ids
shouldCompleteIgnoringUpi(session) ==
    /\ ~ session.isComplete
    /\ ~ session.callbackSent
    /\ \/ Len(session.extractedIntelligence.bankAccounts) > 0
       \/ Len(session.extractedIntelligence.phishingLinks) > 0
       \/ Len(session.extractedIntelligence.phoneNumbers) > 0

\* a variant that takes keywords for intelligence
shouldCompleteOnKeywords(session) ==
    /\ ~ session.isComplete
    /\ ~ session.callbackSent
    /\ \/ hasAnyIntel(session.extractedIntelligence)
       \/ Len(session.extractedIntelligence.suspiciousKeywords) > 0

shouldComplete(session) ==
    IF session.isComplete \/ session.callbackSent THEN FALSE
    ELSE hasAnyIntel(session.extractedIntelligence)

(***************************************************************************)
(* config/prompts.js                                                       *)
(***************************************************************************)
PERSONAS ==
    [NAIVE_USER |-> "Naive User",
     CURIOUS_ELDERLY |-> "Elderly Person",
     INTERESTED_BUYER |-> "Interested Buyer"]

PersonaNames == {PERSONAS[k] : k \in DOMAIN PERSONAS}

personasByScam ==
    [lottery |-> {"NAIVE_USER", "CURIOUS_ELDERLY"},
     fake_offer |-> {"NAIVE_USER", "INTERESTED_BUYER"},
     bank_fraud |-> {"CURIOUS_ELDERLY", "NAIVE_USER"},
     upi_fraud |-> {"NAIVE_USER", "CURIOUS_ELDERLY"},
     phishing |-> {"NAIVE_USER", "INTERESTED_BUYER"},
     other |-> {"NAIVE_USER", "CURIOUS_ELDERLY", "INTERESTED_BUYER"}]

\* selectPersona draws one of the options at random: the names it may return
selectPersona(scamType) ==
    LET options == IF scamType \in DOMAIN personasByScam
                   THEN personasByScam[scamType]
                   ELSE personasByScam["other"]
    IN  {PERSONAS[k] : k \in options}

(***************************************************************************)
(* services/aiAgent.js                                                     *)
(***************************************************************************)
\* The template bank.  Three templates of the source hold characters outside
\* ASCII (a typographic apostrophe, an ellipsis, an emoji); they are written
\* here with ', ... and :( in their place.
FALLBACK_RESPONSES ==
    [bank_fraud |-> <<
        "Wait what? blocked? I just used it yesterday :( what happened?",
        "Oh god... how do I stop it from getting blocked?",
        "Can you tell me what I need to do exactly?",
        "is this for real?? i rely on that account for everything",
        "shud i go to the branch? or can u help me here",
        "KYC? I thought it was already done last year",
        "Can you explain how to update it? I'm not very good with this",
        "Do I need to go to bank or is this online?",
        "is it mandatory? i dont want my account frozen",
        "OTP? I just got some message... where do I enter it?",
        "Is this normal? I've never done verification like this before",
        "Do I need to send it here or somewhere else?",
        "ok i see a code.. shud i share it with u?" >>,
     upi_fraud |-> <<
        "Why payment? I thought verification was free?",
        "which app shud i use? GPay or PhonePe?",
        "Can you send UPI again properly? it failed last time",
        "im confused.. do i pay u or u pay me?",
        "ok wait let me check balance first..",
        "whats the steps? guide me pls" >>,
     phishing |-> <<
        "What is this link for? looks kinda weird",
        "It's asking for details... is this safe?",
        "Should I open it now? im using mobile data",
        "it says warning.. are u sure its correct link?",
        "ok clicking it.. wait its loading slow",
        "do i need to login there?" >>,
     lottery |-> <<
        "OMG really?? ive never won anythng before! How do i claim it",
        "This is amazng!! wat do i need to do?",
        "Wow is this real?? tell me more pls!",
        "i cant believe it!! whats the next step",
        "omg omg this is so exciting!! how do i get my prize" >>,
     other |-> <<
        "im a bit busy right now but tell me more",
        "i dont understand.. can u explain simply",
        "who is this exactly?",
        "is this urgent? shud i call u?",
        "ok.. what next?" >>]

\* a variant without the default list: the draw from no list is undefined
FallbackListNoDefault(scamType) ==
    IF scamType \in DOMAIN FALLBACK_RESPONSES
    THEN FALLBACK_RESPONSES[scamType]
    ELSE <<NULL>>

\* FALLBACK_RESPONSES[scamType] || FALLBACK_RESPONSES.other
FallbackList(scamType) ==
    IF scamType \in DOMAIN FALLBACK_RESPONSES
    THEN FALLBACK_RESPONSES[scamType]
    ELSE FALLBACK_RESPONSES["other"]

\* getFallbackResponse draws one template at random: the ones it may return
getFallbackResponse(scamType) == Range(FallbackList(scamType))

\* String.prototype.trim
RECURSIVE TrimStart(_)
TrimStart(s) ==
    IF Len(s) > 0 /\ Head(s) \in SpaceChars THEN TrimStart(Tail(s)) ELSE s

RECURSIVE TrimEnd(_)
TrimEnd(s) ==
    IF Len(s) > 0 /\ Ch(s, Len(s)) \in SpaceChars
    THEN TrimEnd(SubSeq(s, 1, Len(s) - 1))
    ELSE s

trim(s) == TrimEnd(TrimStart(s))

\* the alternatives of /^(Agent|Bot|Response|Reply):/i, in the regex's order
ReplyPrefixes == <<"agent:", "bot:", "response:", "reply:">>

cleanAIOutput(text) ==
    IF text = NULL \/ text = "" THEN ""
    ELSE LET t == trim(text)
             quoted(q) == startsWith(t, q) /\ endsWith(t, q)
             clean == IF quoted("\"") \/ quoted("'")
                      THEN SubSeq(t, 2, Len(t) - 1)
                      ELSE t
             hits == {k \in 1..Len(ReplyPrefixes) : StartsWithAtCI(clean, 1, ReplyPrefixes[k])}
             k == CHOOSE k1 \in hits : \A k2 \in hits : k1 <= k2
         IN  trim(IF hits = {} THEN clean ELSE From(clean, Len(ReplyPrefixes[k]) + 1))

badPhrases ==
    {"as an ai", "i am an ai", "language model", "i'm a bot",
     "i cannot", "i'm not able", "this is a scam", "honeypot"}

hasBrokenCharacter(text) == \E p \in badPhrases : includes(toLowerCase(text), p)

\* result.replace(/\bfrom\b/gi, to) from position i on; from is in lower case
RECURSIVE ReplaceWordsFrom(_, _, _, _)
ReplaceWordsFrom(s, i, from, to) ==
    LET hits == {j \in i..Len(s) : /\ StartsWithAtCI(s, j, from)
                                   /\ WordBoundaryAt(s, j)
                                   /\ WordBoundaryAt(s, j + Len(from))}
    IN  IF hits = {} THEN From(s, i)
        ELSE LET j == CHOOSE j1 \in hits : \A j2 \in hits : j1 <= j2
             IN  SubSeq(s, i, j - 1) \o to \o ReplaceWordsFrom(s, j + Len(from), from, to)

\* the replacements of humanizeResponse, in the order forEach applies them
replacements ==
    <<  [from |-> "about", to |-> "abt"],
        [from |-> "you", to |-> "u"],
        [from |-> "your", to |-> "ur"],
        [from |-> "are", to |-> "r"],
        [from |-> "please", to |-> "pls"],
        [from |-> "thanks", to |-> "thx"],
        [from |-> "what", to |-> "wat"],
        [from |-> "should", to |-> "shud"],
        [from |-> "when", to |-> "wen"],
        [from |-> "would", to |-> "wud"],
        [from |-> "could", to |-> "cud"],
        [from |-> "going to", to |-> "gonna"],
        [from |-> "want to", to |-> "wanna"],
        [from |-> "i am", to |-> "im"],
        [from |-> "i'm", to |-> "im"]  >>

HindiWords == {"hai", "mein", "ho", "rha", "rhi", "tha", "thi", "kya", "kyu", "kaun"}

\* /\b(hai|mein|...)\b/i.test(text); the Devanagari test is always false on
\* the ASCII texts of the model
isHindi(text) ==
    \E w \in HindiWords :
        \E i \in 1..Len(text) :
            /\ StartsWithAtCI(text, i, w)
            /\ WordBoundaryAt(text, i)
            /\ WordBoundaryAt(text, i + Len(w))

\* result.replace(/\bI\b/g, 'i')
RECURSIVE LowercaseI(_, _)
LowercaseI(s, i) ==
    LET hits == {j \in i..Len(s) : /\ Ch(s, j) = "I"
                                   /\ WordBoundaryAt(s, j)
                                   /\ WordBoundaryAt(s, j + 1)}
    IN  IF hits = {} THEN From(s, i)
        ELSE LET j == CHOOSE j1 \in hits : \A j2 \in hits : j1 <= j2
             IN  SubSeq(s, i, j - 1) \o "i" \o LowercaseI(s, j + 1)

\* result.replace(from, to) with a string pattern: the first occurrence only
ReplaceFirst(s, from, to) ==
    IF ~ includes(s, from) THEN s
    ELSE LET i == CHOOSE j \in 1..Len(s) :
                     /\ StartsWithAt(s, j, from)
                     /\ \A j2 \in 1..(j - 1) : ~ StartsWithAt(s, j2, from)
         IN  SubSeq(s, 1, i - 1) \o to \o From(s, i + Len(from))

typos ==
    {[from |-> "the", to |-> "teh"], [from |-> "and", to |-> "adn"], [from |-> "have", to |-> "ahve"]}

\* The results humanizeResponse may give after its first k replacement rules,
\* each rule being applied or not as Math.random() decides
RECURSIVE HumanizeRules(_, _, _)
HumanizeRules(text, hindi, k) ==
    IF k = 0 THEN {text}
    ELSE LET before == HumanizeRules(text, hindi, k - 1)
             r == replacements[k]
         IN  IF hindi /\ r.to \notin {"u", "ur", "pls"} THEN before
             ELSE before \cup {ReplaceWordsFrom(t, 1, r.from, r.to) : t \in before}

\* humanizeResponse draws at random at every step: the results it may give
humanizeResponse(text) ==
    IF text = NULL \/ text = "" THEN {text}
    ELSE LET hindi == isHindi(text)
             s1 == HumanizeRules(text, hindi, Len(replacements))
             s2 == IF hindi THEN s1 ELSE s1 \cup {LowercaseI(t, 1) : t \in s1}
             s3 == s2 \cup {SubSeq(t, 1, Len(t) - 1) : t \in {u \in s2 : endsWith(u, ".")}}
             s4 == s3 \cup {IF endsWith(t, "?") THEN t \o "?"
                            ELSE IF endsWith(t, "!") THEN t \o "!"
                            ELSE t : t \in s3}
             s5 == s4 \cup {ReplaceFirst(t, ty.from, ty.to) :
                                t \in {u \in s4 : Len(u) > 20}, ty \in typos}
         IN  s5

(***************************************************************************)
(* Bounds and inputs                                                       *)
(***************************************************************************)
\* the number of POST / requests (handle invocations) of a run
MaxRequests == 2

\* the requests of a run whose same-session requests come one at a time
MaxSerial == 2

\* the requests of a run that exercises the reply chain
MaxGen == 1

\* the requests of one long conversation
MaxLong == 11

\* how many of a scam type's templates the random draw may give: the first
\* MaxPick of its list
MaxPick == 1

SessionIds == {"s1"}

\* message.text of the inbound messages: nothing suspicious; prize keywords and
\* no intelligence; the README's example (a UPI id); a bank account and no
\* keyword; a phone number; a suspicious link, a phone number and keywords
TextHello == "hello there"

TextPrize == "You won a lottery prize"

TextReadme == "Congrats! You won Rs.50000 lottery. Send Rs.500 to claim. UPI: winner@paytm"

TextBank == "my acc no is 123456789012"

TextPhone == "call 9876543210"

TextLink == "Your account is blocked! Send OTP to 9876543210 or visit http://bank-verify.xyz"

\* two keywords of no scam type: a scam of type 'none'
TextOffer == "free offer today"

InboundTexts ==
    {TextHello, TextPrize, TextReadme, TextBank, TextPhone, TextLink, TextOffer}

\* conversationHistory of a request body that carries one
PriorHistory ==
    <<[sender |-> "scammer", text |-> "hi"], [sender |-> "agent", text |-> "who is this exactly?"]>>

\* the request bodies of the service's runs: <<message.text, conversationHistory>>
Inputs == {<<TextHello, <<>>>>, <<TextPrize, <<>>>>, <<TextReadme, <<>>>>}

\* the request bodies of the runs whose same-session requests come one at a time
SerialInputs ==
    {<<TextHello, <<>>>>, <<TextPrize, <<>>>>, <<TextPrize, PriorHistory>>,
     <<TextReadme, <<>>>>, <<TextBank, <<>>>>, <<TextLink, <<>>>>}

\* what the classifier's answer parses to, when it parses
ParsedAnswers == {[isScam |-> TRUE, confidence |-> 900, scamType |-> "bank_fraud"]}

SerialParsedAnswers ==
    {[isScam |-> FALSE, confidence |-> 100, scamType |-> "none"],
     [isScam |-> TRUE, confidence |-> 900, scamType |-> "bank_fraud"]}

ValidationErrors == {"Missing sessionId", "Missing message.text"}

\* a provider call that rejects (an error, a timeout of the SDK)
THROWS == "<throws>"

\* what a text-generation provider may answer
ProviderAnswers == {"ok tell me more"}

SerialProviderAnswers == {THROWS, "ok tell me more", "   "}

\* the provider outcomes of the runs that exercise the reply chain: a
\* rejection, the empty text, whitespace, quotes only, a prefix only, texts
\* the post-processing rewrites, a character break
\* a provider text of three sentences, longer than a chat reply
TextEssay ==
    "ok sir my son is not home now so nobody can help me with this phone. "
    \o "my eyes hurt too much to read such small letters on this tiny screen. "
    \o "kindly call me again tomorrow morning after my tea time is over."

GenProviderAnswers ==
    {THROWS, "", "   ", "\"", "\"\"", "Agent:", ".", "ok tell me more",
     "What should I do?", "As an AI I cannot help with that"}

\* the provider outcomes of the runs with a long reply
EssayProviderAnswers == {THROWS, "ok tell me more", "Agent: What should I do?", TextEssay}

LongProviderAnswers == {"ok tell me more"}

(***************************************************************************)
(* State                                                                   *)
(***************************************************************************)
VARIABLES
    env,        \* process.env: which API keys are set
    sessions,   \* sessionManager's Map: session id -> session
    requests,   \* the POST / handler invocations: request number -> its locals
    computed    \* what the pure services make of the runs' inputs

vars == <<env, sessions, requests, computed>>

NoDetection == [isScam |-> FALSE, confidence |-> 0, scamType |-> NULL, method |-> "none"]

NoResponse == [status |-> NULL]

NoCallback == [state |-> "none", attempt |-> 0]

IdleRequest ==
    [pc |-> "idle",
     sessionId |-> NULL,
     message |-> [sender |-> NULL, text |-> NULL],
     detection |-> NoDetection,      \* detection, of the route
     shouldStop |-> FALSE,           \* shouldStop, of the route
     markedComplete |-> FALSE,       \* the route called markComplete
     invoked |-> FALSE,              \* generateResponse was called
     persona |-> NULL,               \* persona.name, of generateResponse
     scamType |-> NULL,              \* session.scamType, of generateResponse's argument
     rawResponse |-> NULL,           \* rawResponse, of generateResponse
     agentResponse |-> NULL,         \* response.agentResponse
     response |-> NoResponse,        \* what res.json / res.status(400).json sent
     callback |-> NoCallback]        \* the sendFinalResult call the request started

\* the first MaxPick elements of a sequence, as a set
FirstPicks(seq) == {seq[i] : i \in 1..Min(Len(seq), MaxPick)}

\* the draws a run takes of getFallbackResponse
FallbackPicks(scamType) ==
    FirstPicks(Filter(FallbackList(scamType), getFallbackResponse(scamType)))

ScamTypes ==
    {"bank_fraud", "upi_fraud", "phishing", "lottery", "suspicious", "none", "other"}

\* generateResponse, step 5, of each provider text: cleanAIOutput, then
\* hasBrokenCharacter and humanizeResponse of the cleaned text
PostProcessed(answers) ==
    [raw \in answers \ {THROWS} |->
        Bind(LAMBDA finalResponse :
                [broken |-> hasBrokenCharacter(finalResponse),
                 replies |-> humanizeResponse(finalResponse)],
             cleanAIOutput(raw))]

\* The pure services' results over the inputs of the runs, evaluated once, at
\* the start: extract and patternBasedDetection of each inbound text,
\* cleanAIOutput / hasBrokenCharacter / humanizeResponse of each provider
\* text, and the template draws of each scam type
Computed ==
    [extract |-> [t \in InboundTexts |-> extract(t)],
     patternBasedDetection |-> [t \in InboundTexts |-> patternBasedDetection(t)],
     postProcess |-> PostProcessed(ProviderAnswers \cup SerialProviderAnswers
                                    \cup GenProviderAnswers \cup LongProviderAnswers),
     getFallbackResponse |-> [t \in ScamTypes |-> FallbackPicks(t)],
     \* the humanized provider texts and the drawn templates that hold a
     \* character-break phrase
     brokenReplies |->
        {reply \in UNION {humanizeResponse(cleanAIOutput(raw)) :
                            raw \in GenProviderAnswers \ {THROWS}}
                   \cup UNION {FallbackPicks(t) : t \in ScamTypes} :
            hasBrokenCharacter(reply)},
     \* the templates that are empty or hold a character-break phrase
     brokenTemplates |->
        {t \in UNION {Range(FALLBACK_RESPONSES[k]) : k \in DOMAIN FALLBACK_RESPONSES} :
            t = "" \/ hasBrokenCharacter(t)}]

\* the state after start-up, before the first of maxRequests requests
Start(maxRequests) ==
    /\ computed = Computed
    /\ env \in [GEMINI_API_KEY : BOOLEAN, GROQ_API_KEY : BOOLEAN]
    /\ sessions = <<>>
    /\ requests = [r \in 1..maxRequests |-> IdleRequest]

Init == Start(MaxRequests)

\* JavaScript's truthiness of a string or null
Truthy(v) == v # NULL /\ v # "" /\ v # THROWS

\* x || 'other'
OrOther(v) == IF v = NULL \/ v = "" THEN "other" ELSE v

(***************************************************************************)
(* routes/honeypot.js, POST /.  Each action runs the handler from one      *)
(* suspension point (an await on real I/O or on a timer) to the next.      *)
(***************************************************************************)
\* a variant of the store that keeps one session object for every id
CommitShared(r, req, sess) ==
    /\ sessions' = [sid \in DOMAIN sessions \cup {sess.sessionId} |-> sess]
    /\ requests' = [requests EXCEPT ![r] = req]
    /\ UNCHANGED <<env, computed>>

Commit(r, req, sess) ==
    /\ sessions' = (sess.sessionId :> sess) @@ sessions
    /\ requests' = [requests EXCEPT ![r] = req]
    /\ UNCHANGED <<env, computed>>

\* 4. PREPARE FINAL RESPONSE, after the typing delay if there was one
Finish(r, req, sess) ==
    Commit(r,
           [req EXCEPT
              !.pc = "done",
              !.response =
                 [status |-> "success",
                  scamDetected |-> sess.scamDetected,
                  agentResponse |-> req.agentResponse,
                  totalMessagesExchanged |-> sess.messageCount,
                  extractedIntelligence |-> sess.extractedIntelligence]],
           sess)

\* generateResponse has returned reply: the route records both messages and,
\* for a truthy reply, waits out the typing delay
Replied(r, req, sess, reply) ==
    LET sess2 == addMessage(sess, req.message, reply)
        req2 == [req EXCEPT !.agentResponse = reply]
    IN  IF Truthy(reply)
        THEN Commit(r, [req2 EXCEPT !.pc = "typing"], sess2)
        ELSE Finish(r, req2, sess2)

\* generateResponse, step 4 and the character-break branch: a template
UseFallback(r, req, sess) ==
    \E reply \in computed.getFallbackResponse[OrOther(req.scamType)] : Replied(r, req, sess, reply)

\* a variant of step 5 without the character check
PostProcessUnchecked(r, req, sess, rawResponse) ==
    \E reply \in computed.postProcess[rawResponse].replies : Replied(r, req, sess, reply)

\* generateResponse, step 5
PostProcess(r, req, sess, rawResponse) ==
    IF computed.postProcess[rawResponse].broken
    THEN UseFallback(r, req, sess)
    ELSE \E reply \in computed.postProcess[rawResponse].replies : Replied(r, req, sess, reply)

\* generateResponse, steps 3 to 5, once the secondary provider has answered
\* (or was not tried): rawResponse is its text, or NULL
AfterGroq(r, req, sess, rawResponse) ==
    LET req2 == [req EXCEPT !.rawResponse = rawResponse]
    IN  IF Truthy(rawResponse)
        THEN PostProcess(r, req2, sess, rawResponse)
        ELSE UseFallback(r, req2, sess)

\* a variant that asks the secondary provider whatever the primary produced
AfterGeminiAskingBoth(r, req, sess, rawResponse) ==
    IF env.GROQ_API_KEY
    THEN Commit(r, [req EXCEPT !.pc = "groq", !.rawResponse = rawResponse], sess)
    ELSE AfterGroq(r, req, sess, rawResponse)

\* generateResponse, steps 2 to 5, once the primary provider has answered (or
\* was not tried)
AfterGemini(r, req, sess, rawResponse) ==
    IF ~ Truthy(rawResponse) /\ env.GROQ_API_KEY
    THEN Commit(r, [req EXCEPT !.pc = "groq", !.rawResponse = rawResponse], sess)
    ELSE AfterGroq(r, req, sess, rawResponse)

\* a variant that draws a persona on every call
generateResponseRebinding(r, req, sess, session) ==
    \E persona \in selectPersona(OrOther(session.scamType)) :
        LET sess2 == setScamDetected(sess, session.scamDetected, session.scamType, persona)
            req2 == [req EXCEPT !.invoked = TRUE, !.persona = persona,
                                !.scamType = session.scamType]
        IN  IF env.GEMINI_API_KEY
            THEN Commit(r, [req2 EXCEPT !.pc = "gemini"], sess2)
            ELSE AfterGemini(r, req2, sess2, NULL)

\* generateResponse(session, message), session being the route's snapshot
generateResponse(r, req, sess, session) ==
    \E persona \in (IF session.persona # NULL THEN {session.persona}
                    ELSE selectPersona(OrOther(session.scamType))) :
        LET sess2 == IF session.persona = NULL
                     THEN setScamDetected(sess, session.scamDetected, session.scamType, persona)
                     ELSE sess
            req2 == [req EXCEPT !.invoked = TRUE, !.persona = persona,
                                !.scamType = session.scamType]
        IN  IF env.GEMINI_API_KEY
            THEN Commit(r, [req2 EXCEPT !.pc = "gemini"], sess2)
            ELSE AfterGemini(r, req2, sess2, NULL)

\* sendFinalResult up to its first await: the guard on the snapshot it is given
sendFinalResult(session) ==
    IF session.callbackSent
    THEN [state |-> "alreadySent", attempt |-> 0]
    ELSE [state |-> "posting", attempt |-> 1]

\* a variant that performs the transition without looking at isComplete
DecideCompletingAgain(r, req, sess0, detection) ==
    LET sess1 == IF detection.isScam /\ ~ sess0.scamDetected
                 THEN setScamDetected(sess0, TRUE, detection.scamType, NULL)
                 ELSE sess0
        sessionSnapshot == sess1
        shouldStop == \/ sessionSnapshot.isComplete
                      \/ sessionSnapshot.callbackSent
                      \/ shouldComplete(sess1)
        req1 == [req EXCEPT !.detection = detection, !.shouldStop = shouldStop]
    IN  IF (detection.isScam \/ sessionSnapshot.scamDetected) /\ ~ shouldStop
        THEN generateResponse(r, req1, sess1, sessionSnapshot)
        ELSE IF shouldStop
        THEN LET sess2 == markComplete(sess1)
                 sess3 == addMessage(sess2, req.message, NULL)
             IN  Finish(r,
                        [req1 EXCEPT
                            !.markedComplete = TRUE,
                            !.callback =
                               IF detection.isScam THEN sendFinalResult(sess3) ELSE NoCallback],
                        sess3)
        ELSE Finish(r, req1, addMessage(sess1, req.message, NULL))

\* The route from "Update session with detection results" on
Decide(r, req, sess0, detection) ==
    LET sess1 == IF detection.isScam /\ ~ sess0.scamDetected
                 THEN setScamDetected(sess0, TRUE, detection.scamType, NULL)
                 ELSE sess0
        sessionSnapshot == sess1
        shouldStop == \/ sessionSnapshot.isComplete
                      \/ sessionSnapshot.callbackSent
                      \/ shouldComplete(sess1)
        req1 == [req EXCEPT !.detection = detection, !.shouldStop = shouldStop]
    IN  IF (detection.isScam \/ sessionSnapshot.scamDetected) /\ ~ shouldStop
        THEN generateResponse(r, req1, sess1, sessionSnapshot)
        ELSE IF shouldStop
        THEN LET sess2 == IF ~ sessionSnapshot.isComplete THEN markComplete(sess1) ELSE sess1
                 sess3 == addMessage(sess2, req.message, NULL)
             IN  Finish(r,
                        [req1 EXCEPT
                            !.markedComplete = ~ sessionSnapshot.isComplete,
                            !.callback =
                               IF detection.isScam THEN sendFinalResult(sess3) ELSE NoCallback],
                        sess3)
        ELSE Finish(r, req1, addMessage(sess1, req.message, NULL))

\* the requests are numbered in the order they arrive
Arrives(r) ==
    /\ requests[r].pc = "idle"
    /\ \A r2 \in DOMAIN requests : r2 < r => requests[r2].pc # "idle"

\* a variant that looks the session up before it validates the message
RejectAfterLookup(r, error) ==
    /\ Arrives(r)
    /\ requests' = [requests EXCEPT ![r] =
          [@ EXCEPT !.pc = "rejected",
                    !.response = [status |-> "error", error |-> error]]]
    /\ IF error = "Missing message.text"
       THEN \E sessionId \in SessionIds :
               sessions' = sessions @@ (sessionId :> createSession(sessionId))
       ELSE UNCHANGED sessions
    /\ UNCHANGED <<env, computed>>

\* basic validation: a missing sessionId or message.text is answered 400
Reject(r, error) ==
    /\ Arrives(r)
    /\ requests' = [requests EXCEPT ![r] =
          [@ EXCEPT !.pc = "rejected",
                    !.response = [status |-> "error", error |-> error]]]
    /\ UNCHANGED <<env, sessions, computed>>

\* A request arrives: validation, getOrCreateSession, the history sync,
\* extraction, and analyze up to the classifier call (or, when stage 1 is sure
\* or no classifier is configured, through to the next suspension)
Receive(r, sessionId, text, conversationHistory) ==
    /\ Arrives(r)
    /\ LET session == IF sessionId \in DOMAIN sessions
                      THEN sessions[sessionId]
                      ELSE createSession(sessionId)
           synced == IF Len(conversationHistory) > Len(session.conversationHistory)
                     THEN [session EXCEPT !.conversationHistory = conversationHistory]
                     ELSE session
           sess0 == addIntelligence(synced, computed.extract[text])
           patternResult == computed.patternBasedDetection[text]
           req == [requests[r] EXCEPT
                     !.sessionId = sessionId,
                     !.message = [sender |-> "scammer", text |-> text]]
       IN  IF PatternIsSure(patternResult) \/ ~ env.GEMINI_API_KEY
           THEN Decide(r, req, sess0, patternResult)
           ELSE Commit(r, [req EXCEPT !.pc = "detect"], sess0)

\* the classifier call settles: aiBasedDetection returns null (it threw, or
\* its answer did not parse) or the parsed answer
DetectDone(r, aiResult) ==
    /\ requests[r].pc = "detect"
    /\ Decide(r, requests[r], sessions[requests[r].sessionId],
              analyzeCombine(computed.patternBasedDetection[requests[r].message.text], aiResult))

\* the primary provider's call settles
GeminiDone(r, answer) ==
    /\ requests[r].pc = "gemini"
    /\ AfterGemini(r, requests[r], sessions[requests[r].sessionId],
                   IF answer = THROWS THEN NULL ELSE answer)

\* the secondary provider's call settles
GroqDone(r, answer) ==
    /\ requests[r].pc = "groq"
    /\ AfterGroq(r, requests[r], sessions[requests[r].sessionId],
                 IF answer = THROWS THEN NULL ELSE answer)

\* the typing delay is over
TypingDone(r) ==
    /\ requests[r].pc = "typing"
    /\ Finish(r, requests[r], sessions[requests[r].sessionId])

(***************************************************************************)
(* services/guviCallback.js                                                *)
(***************************************************************************)
\* the attempts of one sendFinalResult call
MaxAttempts == 3

\* a variant whose loop bound is off by one: a fourth attempt follows
CallbackPostRetryingOnceMore(r, ok) ==
    LET cb == requests[r].callback
        sid == requests[r].sessionId
    IN  /\ cb.state = "posting"
        /\ IF ok
           THEN /\ sessions' = [sessions EXCEPT ![sid] = markCallbackSent(@)]
                /\ requests' = [requests EXCEPT ![r].callback.state = "success"]
           ELSE /\ requests' = [requests EXCEPT ![r].callback.state =
                        IF cb.attempt <= MaxAttempts THEN "backoff" ELSE "failed"]
                /\ UNCHANGED sessions
        /\ UNCHANGED <<env, computed>>

\* the POST of sendFinalResult settles (axios gives up after its timeout):
\* success marks the session and returns; a failure waits before the next
\* attempt, or returns success = false after the last
CallbackPost(r, ok) ==
    LET cb == requests[r].callback
        sid == requests[r].sessionId
    IN  /\ cb.state = "posting"
        /\ IF ok
           THEN /\ sessions' = [sessions EXCEPT ![sid] = markCallbackSent(@)]
                /\ requests' = [requests EXCEPT ![r].callback.state = "success"]
           ELSE /\ requests' = [requests EXCEPT ![r].callback.state =
                        IF cb.attempt < MaxAttempts THEN "backoff" ELSE "failed"]
                /\ UNCHANGED sessions
        /\ UNCHANGED <<env, computed>>

\* the wait before a retry is over: the next attempt POSTs
CallbackRetry(r) ==
    LET cb == requests[r].callback
    IN  /\ cb.state = "backoff"
        /\ requests' = [requests EXCEPT ![r].callback =
                [state |-> "posting", attempt |-> cb.attempt + 1]]
        /\ UNCHANGED <<env, sessions, computed>>

\* what aiBasedDetection may return
AiResults(parsedAnswers) == {NullResult} \cup {aiBasedDetection(p) : p \in parsedAnswers}

\* The service: requests arrive at any time, also while earlier requests of
\* the same session are in flight
Next ==
    \/ \E r \in DOMAIN requests, error \in ValidationErrors : Reject(r, error)
    \/ \E r \in DOMAIN requests, sessionId \in SessionIds, in \in Inputs :
            Receive(r, sessionId, in[1], in[2])
    \/ \E r \in DOMAIN requests, aiResult \in AiResults(ParsedAnswers) :
            DetectDone(r, aiResult)
    \/ \E r \in DOMAIN requests, answer \in ProviderAnswers : GeminiDone(r, answer)
    \/ \E r \in DOMAIN requests, answer \in ProviderAnswers : GroqDone(r, answer)
    \/ \E r \in DOMAIN requests : TypingDone(r)
    \/ \E r \in DOMAIN requests, ok \in BOOLEAN : CallbackPost(r, ok)
    \/ \E r \in DOMAIN requests : CallbackRetry(r)

Spec == Init /\ [][Next]_vars

\* The service with requests for two session ids in flight together
MaxTwo == 2

TwoSessionIds == {"s1", "s2"}

InitTwo == Start(MaxTwo)

NextTwo ==
    \/ \E r \in DOMAIN requests : Reject(r, "Missing sessionId")
    \/ \E r \in DOMAIN requests, sessionId \in TwoSessionIds,
          text \in {TextPrize, TextReadme, TextBank} :
            Receive(r, sessionId, text, <<>>)
    \/ \E r \in DOMAIN requests : DetectDone(r, NullResult)
    \/ \E r \in DOMAIN requests, answer \in ProviderAnswers : GeminiDone(r, answer)
    \/ \E r \in DOMAIN requests, answer \in ProviderAnswers : GroqDone(r, answer)
    \/ \E r \in DOMAIN requests : TypingDone(r)
    \/ \E r \in DOMAIN requests, ok \in BOOLEAN : CallbackPost(r, ok)
    \/ \E r \in DOMAIN requests : CallbackRetry(r)

SpecTwo == InitTwo /\ [][NextTwo]_vars

\* The service under the serialization the specification requires of its
\* callers: a session's next request arrives after its previous one was answered
InitSerial ==
    /\ computed = [Computed EXCEPT !.postProcess = PostProcessed(SerialProviderAnswers)]
    /\ env \in [GEMINI_API_KEY : BOOLEAN, GROQ_API_KEY : BOOLEAN]
    /\ sessions = <<>>
    /\ requests = [r \in 1..MaxSerial |-> IdleRequest]

Answered(sessionId) ==
    \A r \in DOMAIN requests :
        requests[r].sessionId = sessionId => requests[r].pc \in {"done", "rejected"}

NextSerial ==
    \/ \E r \in DOMAIN requests, error \in ValidationErrors : Reject(r, error)
    \/ \E r \in DOMAIN requests, sessionId \in SessionIds, in \in SerialInputs :
            Answered(sessionId) /\ Receive(r, sessionId, in[1], in[2])
    \/ \E r \in DOMAIN requests, aiResult \in AiResults(SerialParsedAnswers) :
            DetectDone(r, aiResult)
    \/ \E r \in DOMAIN requests, answer \in SerialProviderAnswers : GeminiDone(r, answer)
    \/ \E r \in DOMAIN requests, answer \in SerialProviderAnswers : GroqDone(r, answer)
    \/ \E r \in DOMAIN requests : TypingDone(r)
    \/ \E r \in DOMAIN requests, ok \in BOOLEAN : CallbackPost(r, ok)
    \/ \E r \in DOMAIN requests : CallbackRetry(r)

SpecSerial == InitSerial /\ [][NextSerial]_vars

\* The reply chain: few requests, every kind of provider outcome
InitGen == Start(MaxGen)

NextGen ==
    \/ \E r \in DOMAIN requests, error \in ValidationErrors : Reject(r, error)
    \/ \E r \in DOMAIN requests, sessionId \in SessionIds,
          text \in {TextPrize, TextReadme, TextOffer} :
            Answered(sessionId) /\ Receive(r, sessionId, text, <<>>)
    \/ \E r \in DOMAIN requests : DetectDone(r, NullResult)
    \/ \E r \in DOMAIN requests, answer \in GenProviderAnswers : GeminiDone(r, answer)
    \/ \E r \in DOMAIN requests, answer \in GenProviderAnswers : GroqDone(r, answer)
    \/ \E r \in DOMAIN requests : TypingDone(r)
    \/ \E r \in DOMAIN requests, ok \in BOOLEAN : CallbackPost(r, ok)
    \/ \E r \in DOMAIN requests : CallbackRetry(r)

SpecGen == InitGen /\ [][NextGen]_vars

\* The waits that the code itself ends: the typing delay (setTimeout), the
\* callback POST (axios timeout: 10000) and the backoff sleep.  The provider
\* calls carry no timeout, so nothing obliges them to settle.
SpecGenFair ==
    /\ InitGen
    /\ [][NextGen]_vars
    /\ \A r \in 1..MaxGen :
          /\ WF_vars(TypingDone(r))
          /\ WF_vars(\E ok \in BOOLEAN : CallbackPost(r, ok))
          /\ WF_vars(CallbackRetry(r))

\* The reply chain with a provider that may write an essay
InitEssay ==
    /\ computed = [Computed EXCEPT !.postProcess = PostProcessed(EssayProviderAnswers)]
    /\ env \in [GEMINI_API_KEY : BOOLEAN, GROQ_API_KEY : BOOLEAN]
    /\ sessions = <<>>
    /\ requests = [r \in 1..MaxGen |-> IdleRequest]

NextEssay ==
    \/ \E r \in DOMAIN requests, error \in ValidationErrors : Reject(r, error)
    \/ \E r \in DOMAIN requests, sessionId \in SessionIds,
          text \in {TextPrize, TextReadme, TextOffer} :
            Answered(sessionId) /\ Receive(r, sessionId, text, <<>>)
    \/ \E r \in DOMAIN requests : DetectDone(r, NullResult)
    \/ \E r \in DOMAIN requests, answer \in EssayProviderAnswers : GeminiDone(r, answer)
    \/ \E r \in DOMAIN requests, answer \in EssayProviderAnswers : GroqDone(r, answer)
    \/ \E r \in DOMAIN requests : TypingDone(r)
    \/ \E r \in DOMAIN requests, ok \in BOOLEAN : CallbackPost(r, ok)
    \/ \E r \in DOMAIN requests : CallbackRetry(r)

SpecEssay == InitEssay /\ [][NextEssay]_vars

\* One long conversation: the caller sends a session's next message after the
\* previous one was answered, and sends no more once the session is complete;
\* its malformed requests come first
InitLong == Start(MaxLong)

Ongoing(sessionId) ==
    sessionId \in DOMAIN sessions => ~ sessions[sessionId].isComplete

NextLong ==
    \/ \E r \in DOMAIN requests : sessions = <<>> /\ Reject(r, "Missing sessionId")
    \/ \E r \in DOMAIN requests, sessionId \in SessionIds,
          text \in {TextPrize, TextReadme} :
            Answered(sessionId) /\ Ongoing(sessionId) /\ Receive(r, sessionId, text, <<>>)
    \/ \E r \in DOMAIN requests : DetectDone(r, NullResult)
    \/ \E r \in DOMAIN requests, answer \in LongProviderAnswers : GeminiDone(r, answer)
    \/ \E r \in DOMAIN requests, answer \in LongProviderAnswers : GroqDone(r, answer)
    \/ \E r \in DOMAIN requests : TypingDone(r)
    \/ \E r \in DOMAIN requests, ok \in BOOLEAN : CallbackPost(r, ok)
    \/ \E r \in DOMAIN requests : CallbackRetry(r)

SpecLong == InitLong /\ [][NextLong]_vars

(***************************************************************************)
(* The extractor, the pattern stage and the merge called on their own, as  *)
(* the module's exports allow: computed holds the argument and, call after *)
(* call, what each function returned for it.                               *)
(***************************************************************************)
\* a number behind the trunk prefix 0 whose ten digits begin with 91
TextTrunk == "ring 09198765432"

\* a number behind the country prefix 91, and a date of birth
TextPrefixed == "acct 919876543210 dob 25121990"

\* an address of a company and an address of a free-mail provider
TextEmail == "john@company.com or me@gmail.com"

TextKyc == "your kyc is suspended"

TextVerifyPrize == "verify account to get prize"

TextUrgent == "call 9876543210 urgent cash free deal"

TextIpLink == "pay a@ybl at http://1.2.3.4/x"

TextEverything == "urgent pay a@ybl 9876543210 http://1.2.3.4 won prize otp free"

TextHurry == "hurry"

TextFreeCash == "free cash"

ExtractTexts ==
    {TextHello, TextPrize, TextReadme, TextBank, TextPhone, TextLink, TextOffer,
     TextTrunk, TextPrefixed, TextEmail, TextKyc, TextVerifyPrize, TextUrgent,
     TextIpLink, TextEverything, TextHurry, TextFreeCash}

\* What the classifier may do.  A parsed answer holds what JSON.parse gave for
\* isScam, confidence and scamType; of the answer {} all three are undefined
\* (an undefined isScam is falsy: FALSE; an undefined confidence: 0; an
\* undefined scamType: NULL)
NoParsed == [isScam |-> FALSE, confidence |-> 0, scamType |-> NULL]

ClassifierAnswers ==
    {[kind |-> k, parsed |-> NoParsed] :
        k \in {"unconfigured", "throws", "unparsable", "incomplete"}}
    \cup {[kind |-> "structured", parsed |-> p] :
            p \in {[isScam |-> TRUE, confidence |-> 900, scamType |-> "bank_fraud"],
                   [isScam |-> FALSE, confidence |-> 100, scamType |-> "none"],
                   [isScam |-> FALSE, confidence |-> 0, scamType |-> "none"],
                   [isScam |-> TRUE, confidence |-> 1000, scamType |-> "phishing"],
                   [isScam |-> TRUE, confidence |-> 5000, scamType |-> "lottery"]}}

\* the texts whose intelligence is merged with the argument's
MergeTexts == {TextPrize, TextPhone, TextFreeCash}

InitExtract ==
    /\ env = [GEMINI_API_KEY |-> FALSE, GROQ_API_KEY |-> FALSE]
    /\ sessions = <<>>
    /\ requests = <<>>
    /\ \E text \in ExtractTexts, other \in MergeTexts :
          computed = [called |-> "nothing",
                      text |-> text,
                      other |-> other,
                      extract |-> EmptyIntelligence,
                      getScamScore |-> [score |-> 0, intelligence |-> EmptyIntelligence],
                      patternBasedDetection |-> NoDetection,
                      extractPhoneNumbers |-> <<>>,
                      addIntelligence |-> <<>>,
                      analyze |-> [answer |-> [kind |-> "none", parsed |-> NoParsed],
                                   result |-> NoDetection]]

\* one call, made after the call named by after, its result stored
Call(after, name, result) ==
    /\ computed.called = after
    /\ computed' = [computed EXCEPT !.called = name, ![name] = result]
    /\ UNCHANGED <<env, sessions, requests>>

CallExtract == Call("nothing", "extract", extract(computed.text))

CallGetScamScore == Call("extract", "getScamScore", getScamScore(computed.text))

CallPatternBasedDetection ==
    Call("getScamScore", "patternBasedDetection", patternBasedDetection(computed.text))

\* extractPhoneNumbers on each number it returned for the text
CallExtractPhoneNumbers ==
    Call("patternBasedDetection", "extractPhoneNumbers",
         [i \in 1..Len(computed.extract.phoneNumbers) |->
             extractPhoneNumbers(computed.extract.phoneNumbers[i])])

\* addIntelligence on a fresh session: the text's record A and the other
\* text's record B, merged as A; A, A; A, B; and B, A
CallAddIntelligence ==
    Call("extractPhoneNumbers", "addIntelligence",
         Bind(LAMBDA B :
                 LET A == computed.extract
                     fresh == createSession("s1")
                     once == addIntelligence(fresh, A)
                 IN  <<once.extractedIntelligence,
                       addIntelligence(once, A).extractedIntelligence,
                       addIntelligence(once, B).extractedIntelligence,
                       addIntelligence(addIntelligence(fresh, B), A).extractedIntelligence>>,
              extract(computed.other)))

\* analyze on the text, the classifier doing one of the things it may do
CallAnalyze ==
    \E answer \in ClassifierAnswers :
        Call("addIntelligence", "analyze",
             [answer |-> answer, result |-> analyze(computed.text, answer)])

NextExtract ==
    \/ CallAnalyze
    \/ CallExtract
    \/ CallGetScamScore
    \/ CallPatternBasedDetection
    \/ CallExtractPhoneNumbers
    \/ CallAddIntelligence

SpecExtract == InitExtract /\ [][NextExtract]_vars
(***************************************************************************)
(* services/evidenceStore.js: the store, on its own.  The state is kept in *)
(* computed: cache is this.cache, file what EVIDENCE_FILE holds, init the  *)
(* position of init(), writes the data of the writeFile calls in flight,   *)
(* logged the sessions logSession was called with.                         *)
(***************************************************************************)
\* the writeFile calls of save() in flight at one time
MaxWrites == 2

\* this.cache as the constructor sets it
EmptyEvidence ==
    [sessions |-> <<>>, masterIntel |-> EmptyIntelligence, totalScamsDetected |-> 0]

\* updateMasterIntel(newIntel), on the cache
updateMasterIntel(cache, newIntel) ==
    [cache EXCEPT !.masterIntel =
        [key \in IntelKeys |-> Dedup(@[key] \o newIntel[key])]]

\* The module is loaded: the constructor has run and init() waits for
\* readFile.  EVIDENCE_FILE is missing, holds no JSON, or holds what an
\* earlier run saved.
InitStore ==
    /\ env = [GEMINI_API_KEY |-> FALSE, GROQ_API_KEY |-> FALSE]
    /\ sessions = <<>>
    /\ requests = <<>>
    /\ \E file \in {[kind |-> "none", data |-> EmptyEvidence],
                     [kind |-> "garbage", data |-> EmptyEvidence],
                     [kind |-> "json", data |-> EmptyEvidence],
                     [kind |-> "json",
                      data |-> [sessions |-> ("s0" :> createSession("s0")),
                                masterIntel |-> [EmptyIntelligence EXCEPT
                                                    !.phoneNumbers = <<"9876543210">>],
                                totalScamsDetected |-> 0]]} :
          computed = [cache |-> EmptyEvidence,
                      file |-> file,
                      init |-> "reading",
                      writes |-> {},
                      logged |-> {}]

\* logSession(session) up to its await: the cache is updated and save()
\* hands JSON.stringify(this.cache) to writeFile (the time stamp left out)
LogSession(session) ==
    /\ Cardinality(computed.writes) < MaxWrites
    /\ LET stored == [computed.cache EXCEPT
                        !.sessions = (session.sessionId :> session) @@ @]
           merged == updateMasterIntel(stored, session.extractedIntelligence)
           cache == [merged EXCEPT !.totalScamsDetected =
                        Cardinality({id \in DOMAIN merged.sessions :
                                        merged.sessions[id].scamDetected})]
       IN  computed' = [computed EXCEPT
                           !.cache = cache,
                           !.writes = @ \cup {cache},
                           !.logged = @ \cup {session}]
    /\ UNCHANGED <<env, sessions, requests>>

\* init()'s readFile settles.  ENOENT: the cache as it is now is saved.  A
\* text that parses replaces the cache.  Anything else (no JSON in the file,
\* or a file read while a writeFile was rewriting it) is logged.
InitDone(torn) ==
    /\ computed.init = "reading"
    /\ torn => computed.writes # {}
    /\ computed' =
          IF torn \/ computed.file.kind = "garbage"
          THEN [computed EXCEPT !.init = "done"]
          ELSE IF computed.file.kind = "none"
          THEN [computed EXCEPT !.init = "done", !.writes = @ \cup {computed.cache}]
          ELSE [computed EXCEPT !.init = "done", !.cache = computed.file.data]
    /\ UNCHANGED <<env, sessions, requests>>

\* a writeFile of save() settles: the file holds the data, or the error is
\* logged
SaveDone(data, ok) ==
    /\ data \in computed.writes
    /\ computed' = [computed EXCEPT
                       !.writes = @ \ {data},
                       !.file = IF ok THEN [kind |-> "json", data |-> data] ELSE @]
    /\ UNCHANGED <<env, sessions, requests>>

\* The sessions the route logs: one with a scam and a UPI id, the same one
\* later with a phone number too, another without a scam
NextStore ==
    \/ \E session \in
            {[createSession("s1") EXCEPT
                !.scamDetected = TRUE,
                !.extractedIntelligence.upiIds = <<"winner@paytm">>],
             [createSession("s1") EXCEPT
                !.scamDetected = TRUE,
                !.extractedIntelligence.upiIds = <<"winner@paytm">>,
                !.extractedIntelligence.phoneNumbers = <<"9876543210">>],
             [createSession("s2") EXCEPT
                !.extractedIntelligence.bankAccounts = <<"123456789012">>]} :
          LogSession(session)
    \/ \E torn \in BOOLEAN : InitDone(torn)
    \/ \E data \in computed.writes, ok \in BOOLEAN : SaveDone(data, ok)

SpecStore == InitStore /\ [][NextStore]_vars

(***************************************************************************)
(* Properties                                                              *)
(***************************************************************************)
\* shouldEndConversation's cap on messageCount
MessageCap == 20

\* a bank account, a UPI id, a phone number or a link
HoldsIntelligence(intel) ==
    \/ intel.bankAccounts # <<>>
    \/ intel.upiIds # <<>>
    \/ intel.phoneNumbers # <<>>
    \/ intel.phishingLinks # <<>>

\* the stopping policy holds of a session
Stopped(session) ==
    session.isComplete \/ HoldsIntelligence(session.extractedIntelligence)

Done(r) == requests[r].pc = "done"

\* a reply: a non-empty string
IsReply(v) == v # NULL /\ v # ""

\* r is the first request of its session
FirstOfSession(r) ==
    \A r2 \in DOMAIN requests :
        r2 < r => requests[r2].sessionId # requests[r].sessionId

\* C1: with a session's messages handled one at a time, no step invokes
\* generateResponse or obtains a reply for a request of a session of which the
\* stopping policy held before the step (isComplete, or a bank account, UPI id,
\* phone number or link in its intelligence).
C1_NoReplyOnceStopped ==
    [][\A r \in DOMAIN requests :
          LET sid == requests'[r].sessionId
          IN  (\/ ~ requests[r].invoked /\ requests'[r].invoked
               \/ ~ IsReply(requests[r].agentResponse) /\ IsReply(requests'[r].agentResponse))
              => (sid \in DOMAIN sessions => ~ Stopped(sessions[sid]))]_vars

\* a later message with scam keywords and no intelligence, answered without a
\* reply because an earlier message of its session brought intelligence
C1_Witness ==
    \E r1, r2 \in DOMAIN requests :
        /\ r1 < r2 /\ Done(r1) /\ Done(r2)
        /\ requests[r1].sessionId = requests[r2].sessionId
        /\ HoldsIntelligence(requests[r1].response.extractedIntelligence)
        /\ requests[r2].message.text = TextPrize
        /\ requests[r2].detection.isScam
        /\ requests[r2].shouldStop
        /\ ~ requests[r2].invoked
        /\ requests[r2].response.agentResponse = NULL

C3_CapForcesCompletion ==
    \A sid \in DOMAIN sessions :
        sessions[sid].messageCount > MessageCap => sessions[sid].isComplete

\* C4: no step resets a session's isComplete or callbackSent.
C4_FlagsNeverReset ==
    [][\A sid \in DOMAIN sessions :
          /\ sessions[sid].isComplete => sessions'[sid].isComplete
          /\ sessions[sid].callbackSent => sessions'[sid].callbackSent]_vars

\* a session complete and reported, and a later request that found it so
C4_Witness ==
    \E r \in DOMAIN requests :
        /\ Done(r)
        /\ requests[r].callback.state = "alreadySent"
        /\ sessions[requests[r].sessionId].isComplete
        /\ sessions[requests[r].sessionId].callbackSent

Detected(ss, sid) == sid \in DOMAIN ss /\ ss[sid].scamDetected

\* C5: a step leaves a detected session detected and its scamType as it was; a
\* session becomes detected only in the step in which one of its requests gets a
\* detection with isScam = true, and takes that detection's scamType; an
\* undetected session has no scamType.
C5_DetectionWrittenOnce ==
    [][\A sid \in DOMAIN sessions' :
          IF Detected(sessions, sid)
          THEN /\ sessions'[sid].scamDetected
               /\ sessions'[sid].scamType = sessions[sid].scamType
          ELSE IF sessions'[sid].scamDetected
          THEN \E r \in DOMAIN requests :
                  /\ requests'[r].sessionId = sid
                  /\ requests[r].pc \in {"idle", "detect"}
                  /\ requests'[r].pc \notin {"idle", "detect"}
                  /\ requests'[r].detection.isScam
                  /\ requests'[r].detection.scamType = sessions'[sid].scamType
          ELSE sessions'[sid].scamType = NULL]_vars

\* a detected session whose later request got a detection of another type, and
\* whose persona was bound
C5_Witness ==
    \E r \in DOMAIN requests :
        /\ requests[r].pc \notin {"idle", "rejected", "detect"}
        /\ requests[r].detection.isScam
        /\ sessions[requests[r].sessionId].scamDetected
        /\ sessions[requests[r].sessionId].persona # NULL
        /\ requests[r].detection.scamType # sessions[requests[r].sessionId].scamType

\* C6: a step leaves a bound persona as it was, and a request that enters
\* generateResponse for a session with a bound persona uses that persona.
C6_PersonaBoundOnce ==
    [][\A sid \in DOMAIN sessions :
          sessions[sid].persona # NULL
          => /\ sessions'[sid].persona = sessions[sid].persona
             /\ \A r \in DOMAIN requests :
                   /\ requests'[r].sessionId = sid
                   /\ ~ requests[r].invoked
                   /\ requests'[r].invoked
                   => requests'[r].persona = sessions[sid].persona]_vars

\* two requests of a session in generateResponse with the one persona, the
\* later one's detection reporting another scamType than the session's
C6_Witness ==
    \E r1, r2 \in DOMAIN requests :
        /\ r1 # r2
        /\ requests[r1].sessionId = requests[r2].sessionId
        /\ requests[r1].invoked /\ requests[r2].invoked
        /\ requests[r1].persona # NULL
        /\ requests[r2].persona = requests[r1].persona
        /\ sessions[requests[r1].sessionId].persona = requests[r1].persona
        /\ requests[r2].detection.isScam
        /\ requests[r2].detection.scamType # sessions[requests[r1].sessionId].scamType

\* C7: a complete session is a detected one.
C7_CompleteImpliesDetected ==
    \A sid \in DOMAIN sessions : sessions[sid].isComplete => sessions[sid].scamDetected

\* C8: an answered request carries a reply exactly when its session is
\* scam-detected and the stopping condition was not met for it.
C8_ReplyIffEngaged ==
    \A r \in DOMAIN requests :
        Done(r) =>
            (IsReply(requests[r].response.agentResponse)
             <=> requests[r].response.scamDetected /\ ~ requests[r].shouldStop)

C10_ReplyNonEmpty ==
    \A r \in DOMAIN requests :
        requests[r].invoked /\ requests[r].pc \in {"typing", "done"}
        => requests[r].agentResponse # NULL /\ Len(requests[r].agentResponse) > 0

\* the template list generateResponse falls back to for a session's scam type
TemplatesFor(scamType) ==
    IF OrOther(scamType) \in DOMAIN FALLBACK_RESPONSES
    THEN Range(FALLBACK_RESPONSES[OrOther(scamType)])
    ELSE Range(FALLBACK_RESPONSES["other"])

\* generateResponse has returned to request r
Returned(r) == requests[r].invoked /\ requests[r].pc \in {"typing", "done"}

\* C11: when generateResponse has returned with no provider text (each provider
\* threw, answered nothing, or was not configured), its reply is a template of
\* the session's scam type ('other' when the type is missing or has no list),
\* non-empty and with no character-break phrase; no template of any list is
\* empty or holds such a phrase.
C11_FallbackIsTemplate ==
    /\ computed.brokenTemplates = {}
    /\ \A r \in DOMAIN requests :
          Returned(r) /\ ~ Truthy(requests[r].rawResponse)
          => /\ IsReply(requests[r].agentResponse)
             /\ requests[r].agentResponse
                   \in TemplatesFor(sessions[requests[r].sessionId].scamType)
             /\ requests[r].agentResponse \notin computed.brokenTemplates

\* both providers configured and both failed, for a scam type that has no list
C11_Witness ==
    \E r \in DOMAIN requests :
        /\ Returned(r)
        /\ env.GEMINI_API_KEY /\ env.GROQ_API_KEY
        /\ requests[r].rawResponse = NULL
        /\ sessions[requests[r].sessionId].scamType = "none"
        /\ requests[r].agentResponse \in Range(FALLBACK_RESPONSES["other"])

\* C12: a request whose generateResponse is waiting on a provider call
\* (Gemini or Groq) eventually gets its response: the wait is bounded, so the
\* chain falls through and handle returns.
C12_ProviderCallReturns ==
    \A r \in 1..MaxGen :
        (requests[r].pc \in {"gemini", "groq"}) ~> (requests[r].pc = "done")

\* sendFinalResult, called for request r, passed its callbackSent guard and
\* POSTed
Posted(r) == requests[r].callback.state \in {"posting", "backoff", "success", "failed"}

\* C13: for each session at most one sendFinalResult invocation passes the
\* callbackSent guard and POSTs the final result.
C13_PostedAtMostOnce ==
    \A r1, r2 \in DOMAIN requests :
        /\ Posted(r1) /\ Posted(r2)
        /\ requests[r1].sessionId = requests[r2].sessionId
        => r1 = r2

\* C14: one sendFinalResult invocation POSTs at most 3 times; its first success
\* marks callbackSent and ends it; it waits only after a failed attempt 1 or 2;
\* the third failure ends it with success = false and leaves the session as it
\* was; once ended it does nothing more.
C14_CallbackAttempts ==
    [][\A r \in DOMAIN requests :
          LET cb == requests[r].callback
              cb2 == requests'[r].callback
              sid == requests[r].sessionId
          IN  /\ cb2.attempt <= 3
              /\ cb2.state = "backoff" => cb2.attempt \in {1, 2}
              /\ cb.state \in {"success", "failed", "alreadySent"} => cb2 = cb
              /\ cb.state = "posting" /\ cb2 # cb
                 => \/ /\ cb2 = [cb EXCEPT !.state = "success"]
                       /\ sessions'[sid].callbackSent
                    \/ /\ cb2 = [cb EXCEPT !.state = "backoff"]
                       /\ cb.attempt < 3
                       /\ sessions' = sessions
                    \/ /\ cb2 = [cb EXCEPT !.state = "failed"]
                       /\ cb.attempt = 3
                       /\ sessions' = sessions
              /\ cb.state = "backoff" /\ cb2 # cb
                 => cb2 = [state |-> "posting", attempt |-> cb.attempt + 1]
      ]_vars

\* an invocation gave up after its third failure, the session still unmarked
C14_Witness ==
    \E r \in DOMAIN requests :
        /\ requests[r].callback = [state |-> "failed", attempt |-> 3]
        /\ ~ sessions[requests[r].sessionId].callbackSent

\* C15: of the handle invocations of one session at most one performs the
\* transition to complete, and it is one that saw isComplete = false; an
\* invocation that decides to stop afterwards performs none.  The scamType an
\* invocation binds for its reply is the session's, and the session's scamType,
\* once bound, is never replaced.
C15_OneTransition ==
    [][/\ \A r1, r2 \in DOMAIN requests :
             /\ requests'[r1].markedComplete /\ requests'[r2].markedComplete
             /\ requests'[r1].sessionId = requests'[r2].sessionId
             => r1 = r2
       /\ \A r \in DOMAIN requests :
             LET sid == requests'[r].sessionId
             IN  /\ requests'[r].markedComplete /\ ~ requests[r].markedComplete
                    => /\ sid \in DOMAIN sessions => ~ sessions[sid].isComplete
                       /\ sessions'[sid].isComplete
                 /\ requests'[r].shouldStop /\ ~ requests[r].shouldStop
                       /\ sid \in DOMAIN sessions /\ sessions[sid].isComplete
                    => /\ ~ requests'[r].markedComplete
                       /\ sessions'[sid].isComplete
                 /\ requests'[r].invoked
                    => requests'[r].scamType = sessions'[sid].scamType
       /\ \A sid \in DOMAIN sessions :
             sessions[sid].scamType # NULL
             => sessions'[sid].scamType = sessions[sid].scamType
      ]_vars

\* two invocations of one session in flight together: the one that arrived
\* first decided to stop after the other had completed the session
C15_Witness ==
    \E r1, r2 \in DOMAIN requests :
        /\ r1 < r2
        /\ requests[r1].sessionId = requests[r2].sessionId
        /\ requests[r2].markedComplete
        /\ requests[r1].shouldStop /\ ~ requests[r1].markedComplete

\* the texts of the inbound messages of a history, in its order
InboundOf(history) ==
    LET inbound == SelectSeq(history, LAMBDA m : m.sender = "scammer")
    IN  [i \in 1..Len(inbound) |-> inbound[i].text]

\* the texts of the requests of a session whose message has been appended, in
\* the order the requests arrived
ArrivedOf(sid) ==
    LET appended == SelectSeq(requests,
                        LAMBDA q : q.sessionId = sid /\ q.pc \in {"typing", "done"})
    IN  [i \in 1..Len(appended) |-> appended[i].message.text]

\* C16: within a session the inbound messages stand in conversationHistory in
\* the order in which they arrived at the route, whatever the interleaving of
\* the requests in flight.
C16_HistoryInArrivalOrder ==
    \A sid \in DOMAIN sessions :
        InboundOf(sessions[sid].conversationHistory) = ArrivedOf(sid)

\* the agent's replies of a history
AgentReplies(history) == SelectSeq(history, LAMBDA m : m.sender = "agent")

\* C17: once a session's isComplete is true, no step appends an agent reply to
\* its history and no step returns a reply to one of its requests, whatever the
\* interleaving: a reply whose generation was waiting on a provider when
\* another message completed the session is neither appended nor returned.
C17_NoReplyAfterComplete ==
    [][\A sid \in DOMAIN sessions :
          sessions[sid].isComplete
          => /\ AgentReplies(sessions'[sid].conversationHistory)
                   = AgentReplies(sessions[sid].conversationHistory)
             /\ \A r \in DOMAIN requests :
                   /\ requests[r].sessionId = sid
                   /\ requests[r].pc # "done" /\ requests'[r].pc = "done"
                   => ~ IsReply(requests'[r].response.agentResponse)
      ]_vars

\* C18: a step of a request changes no session but the one the request names:
\* every other session keeps every field, and no session of another id is
\* created.
C18_OtherSessionsUnchanged ==
    [][\A r \in DOMAIN requests :
          requests'[r] # requests[r]
          => \A sid \in DOMAIN sessions' :
                sid # requests'[r].sessionId
                => sid \in DOMAIN sessions /\ sessions'[sid] = sessions[sid]
      ]_vars

\* requests of two sessions in flight together: the later one has completed
\* its session while the earlier one, replied to, is still in its typing delay
\* with its session open
C18_Witness ==
    \E r1, r2 \in DOMAIN requests :
        /\ r1 < r2
        /\ requests[r1].pc = "typing" /\ requests[r2].pc = "done"
        /\ requests[r1].sessionId = "s1" /\ requests[r2].sessionId = "s2"
        /\ sessions["s2"].isComplete /\ sessions["s2"].messageCount = 1
        /\ ~ sessions["s1"].isComplete /\ sessions["s1"].messageCount = 2

\* C19: the step that rejects a request for a missing sessionId or message
\* text answers it with the validation error and nothing else: no session is
\* created, no session changes, the request never enters the pipeline (no
\* detection, no reply, no callback), and a rejected request does nothing more.
C19_RejectedBeforePipeline ==
    [][\A r \in DOMAIN requests :
          /\ requests'[r].pc = "rejected" /\ requests[r].pc # "rejected"
             => /\ sessions' = sessions
                /\ requests[r].pc = "idle"
                /\ requests'[r].response.status = "error"
                /\ requests'[r].response.error \in ValidationErrors
                /\ requests'[r] = [IdleRequest EXCEPT !.pc = "rejected",
                                                      !.response = requests'[r].response]
          /\ requests[r].pc = "rejected" => requests'[r] = requests[r]
      ]_vars

\* a request rejected after an earlier one had created and filled a session
C19_Witness ==
    \E r1, r2 \in DOMAIN requests :
        /\ r1 < r2
        /\ requests[r1].pc = "done" /\ requests[r2].pc = "rejected"
        /\ requests[r2].response.error = "Missing message.text"
        /\ sessions[requests[r1].sessionId].messageCount > 0

\* C20: no step removes a value from a field of a session's
\* extractedIntelligence, and after every step that touches a request or a
\* session, the session of every request that entered the pipeline holds all
\* that extract found in the request's message, whether or not the message was
\* flagged as a scam.
C20_IntelligenceOnlyGrows ==
    [][/\ \A sid \in DOMAIN sessions :
             \/ sessions'[sid].extractedIntelligence = sessions[sid].extractedIntelligence
             \/ \A key \in IntelKeys :
                   Range(sessions[sid].extractedIntelligence[key])
                      \subseteq Range(sessions'[sid].extractedIntelligence[key])
       /\ \A r \in DOMAIN requests :
             /\ requests'[r].pc \notin {"idle", "rejected"}
             /\ requests'[r] # requests[r] \/ sessions' # sessions
             => \A key \in IntelKeys :
                   Range(computed.extract[requests'[r].message.text][key])
                      \subseteq Range(sessions'[requests'[r].sessionId].extractedIntelligence[key])
      ]_vars

\* a message that was not flagged added its bank account to the keywords an
\* earlier message of the session had brought
C20_Witness ==
    \E r1, r2 \in DOMAIN requests :
        /\ r1 < r2 /\ Done(r1) /\ Done(r2)
        /\ requests[r1].sessionId = requests[r2].sessionId
        /\ requests[r1].message.text = TextPrize
        /\ requests[r2].message.text = TextBank
        /\ ~ requests[r2].detection.isScam
        /\ LET intel == sessions[requests[r2].sessionId].extractedIntelligence
           IN  /\ intel.bankAccounts = <<"123456789012">>
               /\ Range(computed.extract[TextPrize].suspiciousKeywords) # {}
               /\ Range(computed.extract[TextPrize].suspiciousKeywords)
                     \subseteq Range(intel.suspiciousKeywords)

\* C21: addIntelligence is a set union per field: merging record A into a fresh
\* session and then record B leaves, in each field, the values of A and of B
\* and no others; merging A a second time leaves the sets of merging it once;
\* merging B then A leaves the sets of merging A then B.
C21_MergeIsSetUnion ==
    computed.called = "addIntelligence"
    => LET merged == computed.addIntelligence
           A == computed.extract
           B == extract(computed.other)
       IN  \A key \in IntelKeys :
              /\ Range(merged[1][key]) = Range(A[key])
              /\ Range(merged[2][key]) = Range(merged[1][key])
              /\ Range(merged[3][key]) = Range(A[key]) \cup Range(B[key])
              /\ Range(merged[4][key]) = Range(merged[3][key])

\* two records that share keywords and each hold keywords of their own: the
\* two orders of merging give the same set in different array orders
C21_Witness ==
    /\ computed.called = "addIntelligence"
    /\ computed.text = TextReadme /\ computed.other = TextPrize
    /\ LET merged == computed.addIntelligence
       IN  /\ merged[3].suspiciousKeywords # merged[4].suspiciousKeywords
           /\ Range(merged[3].suspiciousKeywords) = Range(merged[4].suspiciousKeywords)
           /\ Range(merged[3].suspiciousKeywords) # Range(merged[1].suspiciousKeywords)
           /\ "won" \in Range(merged[1].suspiciousKeywords)

\* the calls made so far include the call of name
Called(name) ==
    LET order == <<"nothing", "extract", "getScamScore", "patternBasedDetection",
                   "extractPhoneNumbers", "addIntelligence", "analyze">>
        at(n) == CHOOSE i \in 1..Len(order) : order[i] = n
    IN  at(name) <= at(computed.called)

\* C22: every phone number extractPhoneNumbers returned is ten digits, the
\* first of them 6 to 9, and extractPhoneNumbers on that number alone returns
\* exactly that number.
C22_PhoneNormalizationIdempotent ==
    Called("extractPhoneNumbers")
    => \A i \in 1..Len(computed.extract.phoneNumbers) :
          LET phone == computed.extract.phoneNumbers[i]
          IN  /\ Len(phone) = 10
              /\ Ch(phone, 1) \in {"6", "7", "8", "9"}
              /\ \A k \in 1..10 : Ch(phone, k) \in DigitChars
              /\ computed.extractPhoneNumbers[i] = <<phone>>

\* the phone rule holds of the whole of v: an optional +91, 91 or 0, then ten
\* digits of which the first is 6 to 9
QualifiesAsPhone(v) == Len(v) > 0 /\ PATTERNS("PHONE", v, 1) = Len(v)

\* C23: no value extract returns in bankAccounts qualifies on its own as a
\* phone number under the phone rule or as a DDMMYYYY date.
C23_BankAccountNeitherPhoneNorDate ==
    Called("extract")
    => \A i \in 1..Len(computed.extract.bankAccounts) :
          /\ ~ QualifiesAsPhone(computed.extract.bankAccounts[i])
          /\ ~ LooksLikeDate(computed.extract.bankAccounts[i])

\* the part of u after its @ holds the name of a free-mail provider
HasFreeMailDomain(u) ==
    \E at \in 1..Len(u) :
        /\ Ch(u, at) = "@"
        /\ \E k \in 1..Len(emailDomains) :
              includes(toLowerCase(From(u, at + 1)), emailDomains[k])

\* u stands in the text with a dotted extension behind its domain label
FollowedByExtension(text, u) ==
    \E i \in 1..Len(text) :
        /\ StartsWithAt(text, i, u)
        /\ StartsWithAt(text, i + Len(u), ".")
        /\ RunLen(text, i + Len(u) + 1, LetterChars) >= 1

\* C24: no value extract returns in upiIds is an email address or a fragment
\* of one: none has a free-mail provider as its domain, and none stands in the
\* text with a dotted extension (.com, .in) behind its domain label.
C24_UpiIdIsNoEmail ==
    Called("extract")
    => \A i \in 1..Len(computed.extract.upiIds) :
          /\ ~ HasFreeMailDomain(computed.extract.upiIds[i])
          /\ ~ FollowedByExtension(computed.text, computed.extract.upiIds[i])

\* 1 if the sequence holds a value, else 0
NonEmpty(seq) == IF seq # <<>> THEN 1 ELSE 0

\* C25: the score getScamScore returns for a text is min(100, 30 for a UPI id
\* + 15 for a phone number + 40 for a suspicious link + min(30, 5 for each
\* keyword)) of what extract returns for the text, and lies in 0..100; bank
\* accounts add nothing.
C25_ScoreFormula ==
    Called("getScamScore")
    => LET intel == computed.extract
           sum == 30 * NonEmpty(intel.upiIds)
                + 15 * NonEmpty(intel.phoneNumbers)
                + 40 * NonEmpty(intel.phishingLinks)
                + Min(30, 5 * Len(intel.suspiciousKeywords))
       IN  /\ computed.getScamScore.score = Min(100, sum)
           /\ computed.getScamScore.score \in 0..100
           /\ computed.getScamScore.intelligence = intel

\* a text with a UPI id, a phone number, a link and six keywords: the weights
\* add up to 115 and the score is 100
C25_Witness ==
    /\ Called("getScamScore")
    /\ computed.text = TextEverything
    /\ computed.extract.upiIds # <<>> /\ computed.extract.phoneNumbers # <<>>
    /\ computed.extract.phishingLinks # <<>>
    /\ Len(computed.extract.suspiciousKeywords) = 6
    /\ computed.getScamScore.score = 100

\* C26: for the README's example text extract yields upiIds = ["winner@paytm"]
\* and getScamScore a score of at least 70.
C26_ReadmeScoreAtLeast70 ==
    Called("getScamScore") /\ computed.text = TextReadme
    => /\ computed.extract.upiIds = <<"winner@paytm">>
       /\ computed.getScamScore.score >= 70

\* C26, amended: for the README's example text extract yields
\* upiIds = ["winner@paytm"], no phone number and no link, and getScamScore a
\* score of 60: 30 for the UPI id and the capped 30 for its seven keywords.
C26_ReadmeScoreIs60 ==
    Called("getScamScore") /\ computed.text = TextReadme
    => /\ computed.extract.upiIds = <<"winner@paytm">>
       /\ computed.extract.phoneNumbers = <<>>
       /\ computed.extract.phishingLinks = <<>>
       /\ computed.getScamScore.score = 60

\* the example text scored, seven keywords found in it
C26_Witness ==
    /\ Called("getScamScore") /\ computed.text = TextReadme
    /\ Len(computed.getScamScore.intelligence.suspiciousKeywords) = 7
    /\ computed.getScamScore.intelligence.upiIds = <<"winner@paytm">>

\* seq1 is a prefix of seq2
IsPrefix(seq1, seq2) ==
    Len(seq1) <= Len(seq2) /\ SubSeq(seq2, 1, Len(seq1)) = seq1

\* C27: a session's conversationHistory changes only by appending: in every
\* step the history before is a prefix of the history after.
C27_HistoryOnlyAppended ==
    [][\A sid \in DOMAIN sessions :
          IsPrefix(sessions[sid].conversationHistory,
                   sessions'[sid].conversationHistory)]_vars

\* the keyword categories of which a keyword is among kws
CategoriesOf(kws) ==
    {c \in 1..Len(SUSPICIOUS_KEYWORDS) : Range(SUSPICIOUS_KEYWORDS[c]) \cap Range(kws) # {}}

\* C28: the pattern stage reports isScam exactly when the score exceeds 10 (a
\* normalized score above 0.1) or keywords of at least two distinct categories
\* were matched; two keywords of one category with a score of at most 10 do not
\* make it true.
C28_IsScamByScoreOrCategories ==
    Called("patternBasedDetection")
    => (computed.patternBasedDetection.isScam
        <=> \/ computed.getScamScore.score > 10
            \/ Cardinality(CategoriesOf(computed.extract.suspiciousKeywords)) >= 2)

C30_ShortCircuit ==
    [][\A r \in DOMAIN requests :
          LET text == requests'[r].message.text
              patternResult == computed.patternBasedDetection[text]
              returns == requests[r].detection = NoDetection
                         /\ requests'[r].detection # NoDetection
          IN  /\ requests'[r].pc = "detect" => patternResult.confidence < 700
              /\ returns /\ patternResult.confidence >= 700
                 => /\ requests[r].pc = "idle"
                    /\ requests'[r].detection = patternResult
                    /\ requests'[r].detection.method = "pattern"
              /\ returns /\ patternResult.confidence < 700 /\ env.GEMINI_API_KEY
                 => requests[r].pc = "detect"
              /\ returns /\ patternResult.confidence < 700 /\ ~ env.GEMINI_API_KEY
                 => requests[r].pc = "idle" /\ requests'[r].detection = patternResult
      ]_vars

\* with the classifier configured: one request answered on stage 1 alone at
\* confidence 0.8, another answered with the blend of both stages
C30_Witness ==
    /\ env.GEMINI_API_KEY
    /\ \E r1, r2 \in DOMAIN requests :
          /\ Done(r1) /\ Done(r2)
          /\ requests[r1].message.text = TextLink
          /\ requests[r1].detection.method = "pattern"
          /\ requests[r1].detection.confidence = 800
          /\ requests[r2].detection.method = "combined"
          /\ computed.patternBasedDetection[requests[r2].message.text].confidence < 700

\* C31: when the classifier is not configured, throws, or answers with
\* something that is not the expected structured result (no JSON, or JSON
\* without the expected fields), analyze returns exactly the stage-1 result,
\* method pattern.
C31_FallsBackToStage1 ==
    Called("analyze") /\ computed.analyze.answer.kind # "structured"
    => /\ computed.analyze.result = computed.patternBasedDetection
       /\ computed.analyze.result.method = "pattern"

\* analyze asked the classifier and got a structured answer
ClassifierSucceeded ==
    /\ Called("analyze")
    /\ computed.analyze.answer.kind = "structured"
    /\ computed.patternBasedDetection.confidence < 700

\* C32: when the classifier succeeds, analyze returns the confidence
\* 0.3 * pattern + 0.7 * semantic for every semantic confidence in [0, 1], 0
\* included; isScam true iff that blend exceeds 0.1 or either stage says scam;
\* the semantic scamType if the semantic stage says scam and the pattern
\* stage's otherwise; and method combined.
C32_Blend ==
    ClassifierSucceeded /\ computed.analyze.answer.parsed.confidence \in 0..1000
    => LET pattern == computed.patternBasedDetection
           semantic == computed.analyze.answer.parsed
           result == computed.analyze.result
           \* in ten-thousandths
           blend == 3 * pattern.confidence + 7 * semantic.confidence
       IN  /\ 10 * result.confidence = blend
           /\ result.isScam <=> (blend > 1000 \/ semantic.isScam \/ pattern.isScam)
           /\ result.scamType = IF semantic.isScam THEN semantic.scamType
                                ELSE pattern.scamType
           /\ result.method = "combined"

\* C33: the confidence of every result analyze returns lies within [0, 1],
\* whatever the classifier put in its answer.
C33_ConfidenceInUnitInterval ==
    Called("analyze") => computed.analyze.result.confidence \in 0..1000

\* C34: generateResponse tries the tiers in order: the secondary provider is
\* called only after the primary was unavailable, threw or produced nothing;
\* a template is returned only if no provider produced output or the output
\* broke character; an output of the primary is never replaced by the
\* secondary's.
C34_TiersInOrder ==
    [][\A r \in DOMAIN requests :
          LET old == requests[r]
              new == requests'[r]
              returns == /\ old.pc \in {"idle", "detect", "gemini", "groq"}
                         /\ new.pc \in {"typing", "done"}
                         /\ new.invoked
          IN  \* the call of the secondary provider
              /\ old.pc # "groq" /\ new.pc = "groq"
                 => /\ ~ Truthy(new.rawResponse)
                    /\ env.GEMINI_API_KEY => old.pc = "gemini"
              \* what the primary produced is what is post-processed
              /\ old.pc = "gemini" /\ Truthy(new.rawResponse) => returns
              \* a provider's output that kept character is what is returned
              /\ returns /\ Truthy(new.rawResponse)
                 => IF computed.postProcess[new.rawResponse].broken
                    THEN new.agentResponse
                            \in computed.getFallbackResponse[OrOther(new.scamType)]
                    ELSE new.agentResponse
                            \in computed.postProcess[new.rawResponse].replies
              \* a template otherwise, after every configured provider was asked
              /\ returns /\ ~ Truthy(new.rawResponse)
                 => /\ new.agentResponse
                            \in computed.getFallbackResponse[OrOther(new.scamType)]
                    /\ env.GEMINI_API_KEY => old.pc \in {"gemini", "groq"}
                    /\ env.GROQ_API_KEY => old.pc = "groq"
      ]_vars

\* with both providers configured: the primary's output was returned,
\* humanized, and the secondary was never asked
C34_Witness ==
    /\ env.GEMINI_API_KEY /\ env.GROQ_API_KEY
    /\ \E r \in DOMAIN requests :
          /\ requests[r].pc = "typing"
          /\ requests[r].rawResponse = "What should I do?"
          /\ requests[r].agentResponse
                \in computed.postProcess["What should I do?"].replies
          /\ requests[r].agentResponse # "What should I do?"

\* the secondary provider is being asked after the primary threw or
\* produced nothing
C34_SecondaryAsked ==
    /\ env.GEMINI_API_KEY
    /\ \E r \in DOMAIN requests :
          requests[r].pc = "groq" /\ ~ Truthy(requests[r].rawResponse)

\* generateResponse has returned to request r
Generated(r) == requests[r].invoked /\ requests[r].pc \in {"typing", "done"}

\* C35: no reply generateResponse returns contains a character-break phrase:
\* a provider output containing one is replaced by a template of the
\* session's scam type, and humanizing an output never introduces one.
C35_StaysInCharacter ==
    \A r \in DOMAIN requests :
        Generated(r)
        => /\ requests[r].agentResponse \notin computed.brokenReplies
           /\ Truthy(requests[r].rawResponse)
                /\ computed.postProcess[requests[r].rawResponse].broken
              => requests[r].agentResponse
                    \in computed.getFallbackResponse[OrOther(requests[r].scamType)]

\* a provider's answer broke character and a template was returned instead
C35_Witness ==
    \E r \in DOMAIN requests :
        /\ Generated(r)
        /\ requests[r].rawResponse = "As an AI I cannot help with that"
        /\ requests[r].agentResponse
              \in computed.getFallbackResponse[OrOther(requests[r].scamType)]

\* a provider's answer was humanized into a different text and returned
C35_Humanized ==
    \E r \in DOMAIN requests :
        /\ Generated(r)
        /\ Truthy(requests[r].rawResponse)
        /\ ~ computed.postProcess[requests[r].rawResponse].broken
        /\ requests[r].agentResponse # requests[r].rawResponse

\* the length above which the earlier generateResponse trimmed a reply
LengthCeiling == 180

\* response.match(/[^.!?]+[.!?]+/g), from position i on
RECURSIVE SentencesFrom(_, _)
SentencesFrom(s, i) ==
    IF i > Len(s) THEN <<>>
    ELSE IF Ch(s, i) \in {".", "!", "?"} THEN SentencesFrom(s, i + 1)
    ELSE LET j == i + RunLenNot(s, i, {".", "!", "?"})
             marks == RunLen(s, j, {".", "!", "?"})
         IN  IF marks = 0 THEN <<>>
             ELSE <<SubSeq(s, i, j + marks - 1)>> \o SentencesFrom(s, j + marks)

\* the first two sentence-like segments: sentences.slice(0, 2).join(' ').trim()
FirstTwoSentences(response) ==
    LET sentences == Bind(LAMBDA found : IF found = <<>> THEN <<response>> ELSE found,
                          SentencesFrom(response, 1))
    IN  trim(IF Len(sentences) = 1 THEN sentences[1]
             ELSE sentences[1] \o " " \o sentences[2])

\* C36: a provider's reply longer than the length ceiling is cut to its
\* first two sentence-like segments before generateResponse returns it
\* (humanized, as every provider reply is).
C36_LongReplyTruncated ==
    \A r \in DOMAIN requests :
        /\ Generated(r)
        /\ requests[r].rawResponse = TextEssay
        => requests[r].agentResponse
              \in humanizeResponse(FirstTwoSentences(cleanAIOutput(TextEssay)))

\* the session turns complete in this step
Completes(sessionId) ==
    /\ sessionId \in DOMAIN sessions'
    /\ sessions'[sessionId].isComplete
    /\ sessionId \in DOMAIN sessions => ~ sessions[sessionId].isComplete

\* C37: whenever a session in which a scam was detected turns complete,
\* the handler that completes it calls sendFinalResult for it, whether or not
\* it classified the completing message as a scam.
C37_CompletionReported ==
    [][\A sessionId \in SessionIds :
          Completes(sessionId) /\ sessions'[sessionId].scamDetected
          => \E r \in DOMAIN requests :
                /\ requests'[r].sessionId = sessionId
                /\ requests[r].callback = NoCallback
                /\ requests'[r].callback # NoCallback
      ]_vars

\* C38: in every state of a session, messageCount is the number of entries
\* of conversationHistory.
C38_CountIsHistoryLength ==
    \A sessionId \in DOMAIN sessions :
        sessions[sessionId].messageCount = Len(sessions[sessionId].conversationHistory)

\* the scam categories
ScamCategories == {"upi_fraud", "bank_fraud", "phishing", "lottery", "fake_offer", "other"}

\* C39: whenever a session's scamDetected is true, its scamType is a scam
\* category, never null and never 'none'.
C39_DetectedHasCategory ==
    \A sessionId \in DOMAIN sessions :
        sessions[sessionId].scamDetected
        => sessions[sessionId].scamType \in ScamCategories

\* C40: a session passed to logSession stays in the store's cache, and its
\* intelligence in masterIntel, from then on, also when logSession ran while
\* init() was still reading the file.
C40_LoggedStays ==
    \A session \in computed.logged :
        /\ session.sessionId \in DOMAIN computed.cache.sessions
        /\ \A key \in IntelKeys :
              Range(session.extractedIntelligence[key])
                 \subseteq Range(computed.cache.masterIntel[key])
====
